---- MODULE Spec2Model ----
(***************************************************************************)
(* State-machine model of the table-extraction cascade of                  *)
(* backend/core/pdf_processor.py (PDFTableExtractor.extract_tables) and of *)
(* the OCR service it escalates to (backend/core/ocr_service.py).          *)
(*                                                                         *)
(* One request is followed from its entry to its return.  The coroutine    *)
(* is cut at its awaits: an action is the code that runs from one await    *)
(* to the next.  The external libraries are black boxes: what they return  *)
(* (grids, exceptions, durations) is drawn from small sets.                *)
(*                                                                         *)
(* Confidences are kept in thousandths (0.6 is 600): the scorer rounds to  *)
(* three decimals.  A grid is abstracted to the strategy that produced it  *)
(* and its position in that strategy's output.                             *)
(*                                                                         *)
(* Six more machines stand beside the cascade, each with its own           *)
(* specification: the process-isolated extractor of                        *)
(* backend/app/core/pdf_processor.py (SpecApp, SpecAppLive), the two       *)
(* confidence scorers applied to grids of cells (SpecScore), two requests  *)
(* of the cascade served concurrently on one event loop (SpecConc), the    *)
(* rate limiter and the file handler of backend/app/security with their    *)
(* threads (SpecRl, SpecFh), and the builders of grids from raw rows of    *)
(* the text-parsing and OCR strategies (SpecNz).  While one machine runs,  *)
(* the others are parked.                                                  *)
(***************************************************************************)
EXTENDS Integers, Sequences, FiniteSets, TLC

(***************************************************************************)
(* Bounds of the model.                                                    *)
(***************************************************************************)
MaxTables == 2      \* grids one strategy call returns at most
MidCall == 16       \* duration of a slow call, in seconds
LongCall == 31      \* duration of a call that outlasts the whole budget
MaxPages == 2       \* pages the OCR service converts at most
MaxRows == 2        \* text rows the OCR finds on a page at most
AppMidCall == 25    \* duration of a slow call of the process-isolated extractor
AppLongCall == 61   \* duration of a call that outlasts its time limit
MaxGridRows == 5    \* rows of a scored grid at most
Limit == 1          \* requests the rate limiter admits per window
MaxAdmitted == 3    \* requests the rate limiter admits in all
MaxLines == 3       \* table-like lines of a page handed to _parse_text_table at most

(***************************************************************************)
(* Program constants.                                                      *)
(***************************************************************************)
max_processing_time == 30
confidence_threshold == 600
ocr_confidence == 700
enhanced_min_confidence == 300
min_table_rows == 2
app_max_processing_time == 60
app_confidence_threshold == 700
Window == 60
BlockDuration == 300
AggressiveEndpoints == 3
MaxIpLength == 45
min_table_lines == 3
y_tolerance == 10
file_expiry_hours == 1
SecondsPerHour == 3600

extraction_methods == <<"pdfplumber", "camelot", "tabula">>

(***************************************************************************)
(* Inputs.                                                                 *)
(***************************************************************************)
Tiers == {"free", "starter", "business"}
ConfLevels == {200, 600, 1000}
CallTimes == {0, MidCall, LongCall}
ExcMsgs == {"corrupt file"}

VARIABLES
    pc,              \* position of the request in extract_tables
    user_tier,       \* the caller's tier
    methods_to_try,  \* the ordering of the primary strategies
    idx,             \* position of the for loop in methods_to_try
    now,             \* time.time() - start_time
    result,          \* the TableExtractionResult that will be returned
    ocr,             \* the OCR service's call in progress
    calls,           \* history: every collaborator invoked, in order
    notes,           \* history: every note appended to any errors list
    ret,             \* history: what the last primary strategy did
    is_scanned,      \* what is_scanned_pdf answered ("True", "False"), "unset" before
    produced,        \* history: the strategies that returned grids
    raised,          \* history: the strategies that raised
    analysis,        \* history: what the method selector saw of the document
    app,             \* the call of the process-isolated extractor (app/core)
    sc,              \* a grid handed to the two confidence scorers, and their scores
    conc,            \* two requests served by one extractor on one event loop
    rl,              \* the RateLimiter, its request threads and its cleanup thread
    fh,              \* the SecureFileHandler: its registry and the files on disk
    nz               \* raw rows handed to the text-parsing and OCR grid builders

cascade_vars == <<pc, user_tier, methods_to_try, idx, now, result, ocr, calls, notes, ret,
                  is_scanned, produced, raised, analysis>>

vars == <<cascade_vars, app, sc, conc, rl, fh, nz>>

\* what a step of each machine leaves alone: the variables of the others
outside_cascade == <<app, sc, conc, rl, fh, nz>>
outside_app == <<cascade_vars, sc, conc, rl, fh, nz>>
outside_sc == <<cascade_vars, app, conc, rl, fh, nz>>
outside_conc == <<cascade_vars, app, sc, rl, fh, nz>>
outside_rl == <<cascade_vars, app, sc, conc, fh, nz>>
outside_fh == <<cascade_vars, app, sc, conc, rl, nz>>
outside_nz == <<cascade_vars, app, sc, conc, rl, fh>>

(***************************************************************************)
(* Sequences helpers.                                                      *)
(***************************************************************************)
Range(s) == {s[i] : i \in 1..Len(s)}

RECURSIVE Sum(_)
Sum(s) == IF s = <<>> THEN 0 ELSE Head(s) + Sum(Tail(s))

SeqsUpTo(S, n) == UNION {[1..k -> S] : k \in 0..n}

(***************************************************************************)
(* TableExtractionResult().                                                *)
(***************************************************************************)
TableExtractionResult ==
    [tables |-> <<>>, confidence_scores |-> <<>>, extraction_method |-> "",
     total_tables |-> 0, errors |-> <<>>]

Grids(m, n) == [k \in 1..n |-> [by |-> m, n |-> k]]

(***************************************************************************)
(* The notes the code writes into errors.                                  *)
(***************************************************************************)
SecurityErrorMsg(e) == "PDF validation failed: " \o e
TimeoutNote == "Processing timeout after " \o ToString(max_processing_time) \o "s"
StrategyNote(m, e) == m \o ": " \o e
OcrFailedNote(e) == "OCR processing failed: " \o e
UpsellNote == "This appears to be a scanned PDF. OCR processing is available for paid users to extract tables from scanned documents."
NoTablesNote == "No tables found with any extraction method (including fallbacks)"
ExtractionFailedNote(e) == "Extraction failed: " \o e

AddError(r, note) == [r EXCEPT !.errors = Append(@, note)]

(***************************************************************************)
(* time.time() after a call that took d seconds.  The clock is read only   *)
(* by the comparison with the budget (line 64), so the readings from       *)
(* LongCall on, all beyond the budget, are kept as one.                    *)
(***************************************************************************)
Elapse(t, d) == IF t + d > LongCall THEN LongCall ELSE t + d

(***************************************************************************)
(* methods_to_try = [optimal] + [m for m in extraction_methods             *)
(*                               if m != optimal]                          *)
(***************************************************************************)
MethodsToTryKeepingAll(optimal) == <<optimal>> \o extraction_methods

MethodsToTry(optimal) ==
    <<optimal>> \o SelectSeq(extraction_methods, LAMBDA m : m # optimal)

(***************************************************************************)
(* Which strategies let an exception out: _extract_with_pdfplumber opens   *)
(* the file outside any try; camelot and tabula catch everything.          *)
(***************************************************************************)
CanRaise(m) == m = "pdfplumber"

(***************************************************************************)
(* avg_confidence >= self.confidence_threshold, in thousandths:            *)
(* sum/len >= t  iff  sum >= t * len.                                      *)
(***************************************************************************)
ClearsThreshold(confidence) ==
    Sum(confidence) >= confidence_threshold * Len(confidence)

AdoptAnyGrids(tables, confidence) ==
    /\ tables # <<>>
    /\ confidence # <<>>

Adopt(tables, confidence) ==
    /\ tables # <<>>
    /\ confidence # <<>>
    /\ ClearsThreshold(confidence)

(***************************************************************************)
(* The OCR service's call: where it is, the tier it was given, the images  *)
(* _pdf_to_images returned, the page being read, the number of text rows   *)
(* found on each page read, and what the call returned or raised.          *)
(***************************************************************************)
OcrIdle == [pc |-> "idle", tier |-> "", images |-> 0, page |-> 0,
            rows |-> <<>>, tables |-> <<>>, err |-> ""]

\* the method selector has not looked at the document
NoAnalysis == [open |-> "", pages |-> 0, text |-> "", tab_chars |-> 0, numbers |-> 0]

NoRet == [method |-> "", raised |-> FALSE, confidence |-> <<>>]

(***************************************************************************)
(* A scoring: the grid, the grid it is compared with (the same grid when   *)
(* there is no comparison), and what each scorer returned for the two.     *)
(* A score is a fraction num/den.                                          *)
(***************************************************************************)
Zero == [num |-> 0, den |-> 1]

ScParked == [pc |-> "parked", grid |-> <<>>, blanked |-> <<>>,
             core |-> <<Zero, Zero>>, app |-> <<Zero, Zero>>]

(***************************************************************************)
(* Two concurrent requests: the requests, the wall clock they share, and   *)
(* the start times taken so far.                                           *)
(***************************************************************************)
ConcParked == [reqs |-> <<>>, clock |-> 0, started |-> <<>>]

(***************************************************************************)
(* The call of the process-isolated extractor: where extract_tables is,    *)
(* the kind of file it was given, where the worker process is (w), the     *)
(* position of its loop over the extraction methods (k), its best_result,  *)
(* the time the worker has spent (t), and the dict the call returns.  It   *)
(* is parked while a request of the cascade is followed.                   *)
(***************************************************************************)
NoDict == [keys |-> {}, success |-> FALSE, error |-> "", tables |-> <<>>, method |-> ""]

AppParked == [pc |-> "parked", file |-> "", w |-> "idle", k |-> 0,
              best |-> [tables |-> <<>>, confidence |-> 0, method |-> "None"],
              t |-> 0, out |-> NoDict, calls |-> <<>>, rets |-> <<>>]

\* the rate limiter, the file handler and the grid builders before any call
RlParked ==
    [pc |-> "parked", clock |-> 1, lock |-> 0, th |-> <<>>, cleaner |-> [pc |-> "", current_time |-> 0],
     request_history |-> <<>>, blocked_ips |-> <<>>, log |-> <<>>]

FhParked ==
    [pc |-> "parked", clock |-> 1, disk |-> <<>>, registry |-> <<>>, th |-> <<>>,
     used |-> {}, cleaned |-> {}]

NoTable == [made |-> FALSE, headers |-> <<>>, rows |-> <<>>]

NzParked ==
    [pc |-> "parked", lines |-> <<>>, page_data |-> {}, raw |-> <<>>, table |-> NoTable]

SecurityParked == rl = RlParked /\ fh = FhParked

Init ==
    /\ user_tier \in Tiers
    /\ pc \in {"start", "direct_ocr"}
    /\ methods_to_try = <<>>
    /\ idx = 0
    /\ now = 0
    /\ result = TableExtractionResult
    /\ ocr = IF pc = "direct_ocr" THEN [OcrIdle EXCEPT !.pc = "called", !.tier = user_tier]
             ELSE OcrIdle
    /\ calls = <<>>
    /\ notes = {}
    /\ ret = NoRet
    /\ is_scanned = "unset"
    /\ produced = {}
    /\ raised = {}
    /\ analysis = NoAnalysis
    /\ app = AppParked
    /\ sc = ScParked
    /\ conc = ConcParked
    /\ SecurityParked
    /\ nz = NzParked

(***************************************************************************)
(* extract_tables, lines 50-57 and 149-153: validate_pdf_file returns True  *)
(* or raises SecurityError (it has no false return, so lines 53-54 are not *)
(* reached); the exception lands in the outer handler, which records it    *)
(* and returns the result.  A valid file goes on to the method selector.   *)
(***************************************************************************)
ValidatorOutcomes == {"valid", "raise"}

\* what the validator's own try block can fail with (validator.py, lines 49-79)
ValidatorFaults == {"No such file or directory", "File too large"}

\* lines 149-153: the outer handler records the exception and returns the result
OuterHandlerReraises(r, e) == [pc |-> "propagated", result |-> r]

OuterHandler(r, e) == [pc |-> "done", result |-> AddError(r, ExtractionFailedNote(e))]

\* lines 52-54: a validator that said no; the result is returned at once
ValidationFailed(r) ==
    [pc |-> "done", called |-> <<"validate_pdf_file">>,
     result |-> AddError(r, "PDF validation failed"), raised |-> {}]

\* a gate that let a refused file through to the selector
AfterValidationUngated(v, e, r) ==
    [pc |-> "select", called |-> <<"validate_pdf_file", "select_optimal_method">>,
     result |-> r, raised |-> IF v = "raise" THEN {"validate_pdf_file"} ELSE {}]

\* lines 52-57 and 149-153: where extract_tables is after the validator
AfterValidation(v, e, r) ==
    CASE v = "valid" ->
           [pc |-> "select", called |-> <<"validate_pdf_file", "select_optimal_method">>,
            result |-> r, raised |-> {}]
      [] v = "false" -> ValidationFailed(r)
      [] v = "raise" ->
           LET h == OuterHandler(r, SecurityErrorMsg(e))
           IN  [pc |-> h.pc, called |-> <<"validate_pdf_file">>, result |-> h.result,
                raised |-> {"validate_pdf_file"}]

validate_pdf_file ==
    /\ pc = "start"
    /\ \E v \in ValidatorOutcomes, e \in ValidatorFaults :
         LET a == AfterValidation(v, e, result)
         IN  /\ pc' = a.pc
             /\ calls' = calls \o a.called
             /\ result' = a.result
             /\ notes' = notes \cup Range(a.result.errors)
             /\ raised' = raised \cup a.raised
    /\ UNCHANGED <<user_tier, analysis, methods_to_try, idx, now, ocr, ret, is_scanned, produced>>
    /\ UNCHANGED outside_cascade

(***************************************************************************)
(* _select_optimal_method, lines 318-350.  What the selector reads of the  *)
(* document: whether pdfplumber opens it, how many pages it has, whether   *)
(* the text of the first page can be read, and the counts of tabular       *)
(* characters and of numbers in that text.  Every exception ends in the    *)
(* handler of lines 348-350, which returns the default.                    *)
(***************************************************************************)
TabCharsBar == 20
NumbersBar == 50

Analyses ==
    {[NoAnalysis EXCEPT !.open = "raises"],
     [NoAnalysis EXCEPT !.open = "ok"],
     [NoAnalysis EXCEPT !.open = "ok", !.pages = 1, !.text = "raises"]}
    \cup {[open |-> "ok", pages |-> 1, text |-> "ok", tab_chars |-> t, numbers |-> n] :
             t \in {TabCharsBar, TabCharsBar + 1}, n \in {NumbersBar, NumbersBar + 1}}

SelectOptimalMethodNoHandler(a) ==
    CASE a.open = "raises" \/ a.text = "raises" -> ""
      [] a.pages = 0 -> "pdfplumber"
      [] a.tab_chars > TabCharsBar -> "camelot"
      [] a.numbers > NumbersBar -> "tabula"
      [] OTHER -> "pdfplumber"

SelectOptimalMethod(a) ==
    CASE a.open = "raises" -> "pdfplumber"
      [] a.pages = 0 -> "pdfplumber"
      [] a.text = "raises" -> "pdfplumber"
      [] a.tab_chars > TabCharsBar -> "camelot"
      [] a.numbers > NumbersBar -> "tabula"
      [] OTHER -> "pdfplumber"

(***************************************************************************)
(* extract_tables, lines 56-60: the selector returns one of the three      *)
(* strategy names (it catches its own exceptions) and the ordering is      *)
(* built.  The time it took counts against the budget.                     *)
(***************************************************************************)
select_optimal_method ==
    /\ pc = "select"
    /\ \E a \in Analyses, d \in CallTimes :
         /\ analysis' = a
         /\ methods_to_try' = MethodsToTry(SelectOptimalMethod(a))
         /\ now' = Elapse(now, d)
    /\ idx' = 1
    /\ pc' = "loop"
    /\ UNCHANGED <<user_tier, result, ocr, calls, notes, ret, is_scanned, produced, raised>>
    /\ UNCHANGED outside_cascade

(***************************************************************************)
(* extract_tables, lines 62-74: the head of the for loop.  The loop ends   *)
(* when the ordering is exhausted; the checkpoint records the timeout note *)
(* and breaks; otherwise the strategy of this round is called.             *)
(***************************************************************************)
TimedOut == now > max_processing_time

loop_head ==
    /\ pc = "loop"
    /\ IF idx > Len(methods_to_try)
       THEN /\ pc' = "after_loop"
            /\ UNCHANGED <<result, calls, notes>>
       ELSE IF TimedOut
       THEN /\ result' = AddError(result, TimeoutNote)
            /\ notes' = notes \cup {TimeoutNote}
            /\ pc' = "after_loop"
            /\ UNCHANGED calls
       ELSE /\ calls' = Append(calls, methods_to_try[idx])
            /\ pc' = "primary"
            /\ UNCHANGED <<result, notes>>
    /\ UNCHANGED <<user_tier, analysis, methods_to_try, idx, now, ocr, ret, is_scanned, produced, raised>>
    /\ UNCHANGED outside_cascade

(***************************************************************************)
(* extract_tables, lines 76-87: the strategy returned (tables, confidence) *)
(* after d seconds.                                                        *)
(***************************************************************************)
StrategyOutputs == SeqsUpTo(ConfLevels, MaxTables)

(***************************************************************************)
(* Where the loop goes after a strategy returned: break on adoption (line  *)
(* 85), the next round otherwise; and after it raised: continue (lines 92  *)
(* and 96).  The pair is the next position and the next loop index.        *)
(***************************************************************************)
AfterReturnNoBreak(adopted, i) == <<"loop", i + 1>>

AfterReturn(adopted, i) ==
    IF adopted THEN <<"after_loop", i>> ELSE <<"loop", i + 1>>

AfterRaiseBreaks(i) == <<"after_loop", i>>

AfterRaise(i) == <<"loop", i + 1>>

primary_returns ==
    /\ pc = "primary"
    /\ \E confidence \in StrategyOutputs, d \in CallTimes :
         LET method == methods_to_try[idx]
             tables == Grids(method, Len(confidence))
         IN  /\ now' = Elapse(now, d)
             /\ ret' = [method |-> method, raised |-> FALSE, confidence |-> confidence]
             /\ produced' = IF tables # <<>> THEN produced \cup {method} ELSE produced
             /\ result' = IF Adopt(tables, confidence)
                           THEN [result EXCEPT !.tables = tables,
                                               !.confidence_scores = confidence,
                                               !.extraction_method = method,
                                               !.total_tables = Len(tables)]
                           ELSE result
             /\ pc' = AfterReturn(Adopt(tables, confidence), idx)[1]
             /\ idx' = AfterReturn(Adopt(tables, confidence), idx)[2]
    /\ UNCHANGED <<user_tier, analysis, methods_to_try, ocr, calls, notes, is_scanned, raised>>
    /\ UNCHANGED outside_cascade

(***************************************************************************)
(* extract_tables, lines 89-96: the strategy raised after d seconds.       *)
(***************************************************************************)
primary_raises ==
    /\ pc = "primary"
    /\ CanRaise(methods_to_try[idx])
    /\ \E e \in ExcMsgs, d \in CallTimes :
         LET method == methods_to_try[idx]
         IN  /\ now' = Elapse(now, d)
             /\ ret' = [method |-> method, raised |-> TRUE, confidence |-> <<>>]
             /\ result' = AddError(result, StrategyNote(method, e))
             /\ notes' = notes \cup {StrategyNote(method, e)}
             /\ raised' = raised \cup {method}
    /\ pc' = AfterRaise(idx)[1]
    /\ idx' = AfterRaise(idx)[2]
    /\ UNCHANGED <<user_tier, analysis, methods_to_try, ocr, calls, is_scanned, produced>>
    /\ UNCHANGED outside_cascade

(***************************************************************************)
(* extract_tables, lines 98-102, and _apply_fallback_methods, lines        *)
(* 354-359: past the loop, a result with tables is returned; otherwise     *)
(* the fallbacks start with the enhanced pdfplumber.                       *)
(***************************************************************************)
NeedsFallbackAlways(r) == TRUE

NeedsFallback(r) == r.tables = <<>>

after_loop ==
    /\ pc = "after_loop"
    /\ IF ~NeedsFallback(result)
       THEN /\ pc' = "done"
            /\ UNCHANGED calls
       ELSE /\ calls' = Append(calls, "pdfplumber_enhanced")
            /\ pc' = "enhanced"
    /\ UNCHANGED <<user_tier, analysis, methods_to_try, idx, now, result, ocr, notes, ret, is_scanned, produced, raised>>
    /\ UNCHANGED outside_cascade

(***************************************************************************)
(* What a fallback hands back: _apply_fallback_methods fills a new         *)
(* TableExtractionResult, and extract_tables replaces result by it         *)
(* (lines 103-105).                                                        *)
(***************************************************************************)
\* a fallback that forgot line 364 (and 373): total_tables stays 0
FallbackResultUncounted(method, confidence) ==
    [TableExtractionResult EXCEPT !.tables = Grids(method, Len(confidence)),
                                  !.confidence_scores = confidence,
                                  !.extraction_method = method]

FallbackResult(method, confidence) ==
    [TableExtractionResult EXCEPT !.tables = Grids(method, Len(confidence)),
                                  !.confidence_scores = confidence,
                                  !.extraction_method = method,
                                  !.total_tables = Len(confidence)]

(***************************************************************************)
(* _extract_with_enhanced_pdfplumber keeps a grid only if it scores 0.3 or *)
(* more, and never raises.                                                 *)
(***************************************************************************)
EnhancedOutputs ==
    SeqsUpTo({c \in ConfLevels : c >= enhanced_min_confidence}, MaxTables)

enhanced_returns ==
    /\ pc = "enhanced"
    /\ \E confidence \in EnhancedOutputs :
         IF confidence # <<>>
         THEN /\ result' = FallbackResult("pdfplumber_enhanced", confidence)
              /\ produced' = produced \cup {"pdfplumber_enhanced"}
              /\ pc' = "done"
              /\ UNCHANGED calls
         ELSE /\ calls' = Append(calls, "text_parsing")
              /\ pc' = "text"
              /\ UNCHANGED <<result, produced>>
    /\ UNCHANGED <<user_tier, analysis, methods_to_try, idx, now, ocr, notes, ret, is_scanned, raised>>
    /\ UNCHANGED outside_cascade

(***************************************************************************)
(* The two confidence scorers: _calculate_confidence of                    *)
(* backend/core/pdf_processor.py, which scores a DataFrame, and            *)
(* _calculate_table_confidence of backend/app/core/pdf_processor.py, which *)
(* scores a list of rows.  A cell is a Python value: its type and its      *)
(* text.  The arithmetic is exact: a score is a fraction.                  *)
(***************************************************************************)
NoneCell == [type |-> "NoneType", val |-> ""]
StrCell(v) == [type |-> "str", val |-> v]
IntCell(v) == [type |-> "int", val |-> v]
FloatCell(v) == [type |-> "float", val |-> v]

\* a pandas that took the empty string for a missing value
IsNABlank(c) == c.type = "NoneType" \/ c.val = ""

\* pandas' isna: None and NaN are missing, the empty string is not
IsNA(c) == c.type = "NoneType"

\* bool(cell)
Truthy(c) ==
    CASE c.type = "NoneType" -> FALSE
      [] c.type = "str" -> c.val # ""
      [] OTHER -> c.val \notin {"0", "0.0"}

\* cell and str(cell).strip()
NonEmptyCell(c) == Truthy(c) /\ ~(c.type = "str" /\ c.val \in {"", " "})

\* float(str(cell).replace(',', '').replace('$', '').strip()) succeeds
ParsesAsFloat(c) ==
    CASE c.type = "NoneType" -> FALSE
      [] c.type = "str" -> c.val \in {"12", "$1,000"}
      [] OTHER -> TRUE

\* the builtin min, line 304 of core and line 346 of app/core
MinFirst(a, b) == a

Min(a, b) == IF a < b THEN a ELSE b

\* round(x, 3) of x = n/d, in thousandths (a tie goes up)
Round3(n, d) == [num |-> (2000 * n + d) \div (2 * d), den |-> 1000]

(***************************************************************************)
(* pd.DataFrame(grid): the frame is rectangular, as wide as the widest     *)
(* row; the cells a short row lacks are missing.                           *)
(***************************************************************************)
Width(grid) ==
    IF grid = <<>> THEN 0
    ELSE CHOOSE w \in {Len(grid[i]) : i \in 1..Len(grid)} :
             \A i \in 1..Len(grid) : Len(grid[i]) <= w

DataFrame(grid) ==
    [i \in 1..Len(grid) |->
        [j \in 1..Width(grid) |-> IF j <= Len(grid[i]) THEN grid[i][j] ELSE NoneCell]]

Column(df, j) == [i \in 1..Len(df) |-> df[i][j]]

\* select_dtypes(include=['number']): a column of numbers, some of which may
\* be missing; a column that holds a string, or nothing at all, is object
NumericDtype(col) ==
    /\ \A i \in 1..Len(col) : col[i].type \in {"int", "float", "NoneType"}
    /\ \E i \in 1..Len(col) : col[i].type \in {"int", "float"}

\* lines 288-297: the column has a value and at most two types of values
\* (the values of a numeric column all have the column's type)
ConsistentCol(col) ==
    LET present == {i \in 1..Len(col) : ~IsNA(col[i])}
    IN  /\ present # {}
        /\ \/ NumericDtype(col)
           \/ Cardinality({col[i].type : i \in present}) <= 2

(***************************************************************************)
(* _calculate_confidence, lines 241-316.  The terms are summed in units of *)
(* 1/(100 * total_cells); the inner min() of the variety, numeric and      *)
(* alignment bonuses never bind, their ratios being at most 1.             *)
(***************************************************************************)
calculate_confidence(df) ==
    LET rows == Len(df)
        cols == Width(df)
        total_cells == rows * cols
    IN  IF total_cells = 0 THEN Zero
        ELSE
        LET non_empty_cells ==
                Cardinality({ij \in (1..rows) \X (1..cols) : ~IsNA(df[ij[1]][ij[2]])})
            structure_score ==
                (IF rows >= 3 /\ cols >= 2 THEN 10 ELSE 0)
                + (IF rows >= 5 /\ cols >= 3 THEN 5 ELSE 0)
            drop_duplicates == {df[i] : i \in 1..rows}
            numeric_cols == Cardinality({j \in 1..cols : NumericDtype(Column(df, j))})
            string_count ==
                Cardinality({j \in 1..cols : df[1][j].type = "str" /\ df[1][j].val # ""})
            header_bonus == IF 10 * string_count >= 7 * cols THEN 3 ELSE 0
            consistent_cols == Cardinality({j \in 1..cols : ConsistentCol(Column(df, j))})
            confidence ==
                Min(70 * non_empty_cells
                    + structure_score * total_cells
                    + 8 * Cardinality(drop_duplicates) * cols
                    + 5 * numeric_cols * rows
                    + header_bonus * total_cells
                    + 4 * consistent_cols * rows,
                    100 * total_cells)
        IN  Round3(confidence, 100 * total_cells)

(***************************************************************************)
(* _calculate_table_confidence, lines 309-346.  The terms are summed in    *)
(* units of 1/(10 * len(col_counts) * total_cells).                        *)
(***************************************************************************)
calculate_table_confidence(table_data) ==
    IF Len(table_data) < 2 THEN Zero
    ELSE
    LET lens == [i \in 1..Len(table_data) |-> Len(table_data[i])]
        col_counts == SelectSeq(lens, LAMBDA n : n > 0)
        Count(v) == Cardinality({i \in 1..Len(col_counts) : col_counts[i] = v})
        most_common_cols ==
            CHOOSE v \in Range(col_counts) : \A u \in Range(col_counts) : Count(u) <= Count(v)
        total_cells == Sum(lens)
        cells == {ij \in (1..Len(table_data)) \X (1..Width(table_data)) :
                     ij[2] <= Len(table_data[ij[1]])}
        non_empty_cells ==
            Cardinality({ij \in cells : NonEmptyCell(table_data[ij[1]][ij[2]])})
        numeric_cells ==
            Cardinality({ij \in cells : ij[1] >= 2 /\ ParsesAsFloat(table_data[ij[1]][ij[2]])})
    IN  IF total_cells = 0 THEN Zero
        ELSE [num |-> Min(4 * Count(most_common_cols) * total_cells
                          + 3 * non_empty_cells * Len(col_counts)
                          + 3 * numeric_cells * Len(col_counts),
                          10 * Len(col_counts) * total_cells),
              den |-> 10 * Len(col_counts) * total_cells]

(***************************************************************************)
(* The frames _parse_text_table builds (lines 480-525): every cell is a    *)
(* string, a row shorter than the header row being padded with '' (line    *)
(* 517), and the header row gives the column names, not a row of the       *)
(* frame (line 520).  _extract_via_text_parsing drops an empty frame (line *)
(* 454).                                                                   *)
(***************************************************************************)
TextFrames ==
    {<<<<StrCell("a"), StrCell("12")>>, <<StrCell("b"), StrCell("7")>>>>,
     <<<<StrCell("a"), StrCell("")>>, <<StrCell("a"), StrCell("")>>>>,
     <<<<StrCell("a"), StrCell("12")>>, <<StrCell("b"), StrCell("7")>>,
       <<StrCell("c"), StrCell("")>>>>}

\* line 455: confidence = self._calculate_confidence(df) * 0.7, in thousandths
TextConfidence(df) ==
    LET score == calculate_confidence(DataFrame(df))
    IN  (score.num * 7) \div 10

(***************************************************************************)
(* _extract_via_text_parsing scores every grid it parses at 0.7 times the  *)
(* scorer's value, keeps all of them, and never raises.  When it returns   *)
(* nothing, the fallback result is empty and extract_tables asks the OCR   *)
(* service whether the document is scanned (lines 110 and 138).            *)
(***************************************************************************)
TextOutputs == SeqsUpTo({TextConfidence(df) : df \in TextFrames}, MaxTables)

text_returns ==
    /\ pc = "text"
    /\ \E confidence \in TextOutputs :
         IF confidence # <<>>
         THEN /\ result' = FallbackResult("text_parsing", confidence)
              /\ produced' = produced \cup {"text_parsing"}
              /\ pc' = "done"
              /\ UNCHANGED calls
         ELSE /\ calls' = Append(calls, "is_scanned_pdf")
              /\ pc' = "is_scanned"
              /\ UNCHANGED <<result, produced>>
    /\ UNCHANGED <<user_tier, analysis, methods_to_try, idx, now, ocr, notes, ret, is_scanned, raised>>
    /\ UNCHANGED outside_cascade

\* line 108: the tier gate of the OCR escalation
OcrAllowedForAll(tier) == TRUE

OcrAllowed(tier) == tier # "free"

\* lines 108-111: OCR is attempted for a paid caller's document judged scanned
ShouldOcrUnscanned(tier, scanned) == OcrAllowed(tier)

ShouldOcr(tier, scanned) == OcrAllowed(tier) /\ scanned

\* lines 135-142: the upsell note of a free caller's scanned document
ScanNotesNone(tier, scanned) == <<>>

ScanNotes(tier, scanned) ==
    IF ~OcrAllowed(tier) /\ scanned THEN <<UpsellNote>> ELSE <<>>

\* lines 144-145: the no-tables note of a result left without tables
NoTablesNotesAlways(r) == <<NoTablesNote>>

NoTablesNotes(r) == IF r.tables = <<>> THEN <<NoTablesNote>> ELSE <<>>

(***************************************************************************)
(* extract_tables, lines 107-113 and 135-145: is_scanned_pdf returned (it  *)
(* catches its own exceptions).  A paid caller's scanned document goes to  *)
(* the OCR service; a free caller's gets the upsell note; whoever is left  *)
(* without tables gets the no-tables note.                                 *)
(***************************************************************************)
is_scanned_returns ==
    /\ pc = "is_scanned"
    /\ \E scanned \in BOOLEAN :
         /\ is_scanned' = IF scanned THEN "True" ELSE "False"
         /\ IF ShouldOcr(user_tier, scanned)
            THEN /\ ocr' = [OcrIdle EXCEPT !.pc = "called", !.tier = user_tier]
                 /\ calls' = Append(calls, "extract_tables_from_scanned_pdf")
                 /\ pc' = "ocr"
                 /\ UNCHANGED <<result, notes>>
            ELSE LET new == ScanNotes(user_tier, scanned) \o NoTablesNotes(result)
                 IN  /\ result' = [result EXCEPT !.errors = @ \o new]
                     /\ notes' = notes \cup Range(new)
                     /\ pc' = "done"
                     /\ UNCHANGED <<ocr, calls>>
    /\ UNCHANGED <<user_tier, analysis, methods_to_try, idx, now, ret, produced, raised>>
    /\ UNCHANGED outside_cascade

(***************************************************************************)
(* OCRService.extract_tables_from_scanned_pdf, lines 42-47: the tier is    *)
(* checked before anything else; the ValueError is raised outside the try  *)
(* and so is not wrapped.                                                  *)
(***************************************************************************)
TierError == "OCR processing is only available for paid tier users"

TierRejected(tier) == tier = "free"

ocr_check_tier ==
    /\ ocr.pc = "called"
    /\ ocr' = IF TierRejected(ocr.tier)
              THEN [ocr EXCEPT !.pc = "raised", !.err = TierError]
              ELSE [ocr EXCEPT !.pc = "converting"]
    /\ UNCHANGED <<pc, user_tier, analysis, methods_to_try, idx, now, result, calls, notes, ret, is_scanned, produced, raised>>
    /\ UNCHANGED outside_cascade

(***************************************************************************)
(* _extract_tables_from_page, lines 151-176: a page whose text forms at    *)
(* least two rows yields one table, whose dataframe holds the rows after   *)
(* the first; _process_ocr_text_to_tables collects them page by page.      *)
(***************************************************************************)
ocr_processing_method == "OCR"

OcrTable(page, rows) == [page |-> page, df_rows |-> rows - 1]

RECURSIVE ProcessOcrText(_, _)
ProcessOcrText(rows, page) ==
    IF page > Len(rows) THEN <<>>
    ELSE (IF rows[page] < min_table_rows THEN <<>>
          ELSE <<OcrTable(page, rows[page])>>) \o ProcessOcrText(rows, page + 1)

(***************************************************************************)
(* Lines 66-68: whatever is raised inside the try is wrapped.              *)
(***************************************************************************)
OcrWrapped(e) == "OCR processing failed: " \o e

(***************************************************************************)
(* Lines 46-47 and 70-83: _pdf_to_images returned the page images or       *)
(* raised.  With no page there is nothing to read and the call returns.    *)
(***************************************************************************)
ocr_pdf_to_images ==
    /\ ocr.pc = "converting"
    /\ \/ \E n \in 0..MaxPages :
            ocr' = IF n = 0
                   THEN [ocr EXCEPT !.pc = "returned", !.tables = ProcessOcrText(<<>>, 1)]
                   ELSE [ocr EXCEPT !.pc = "reading", !.images = n, !.page = 1]
       \/ \E e \in ExcMsgs :
            ocr' = [ocr EXCEPT !.pc = "raised", !.err = OcrWrapped(e)]
    /\ UNCHANGED <<pc, user_tier, analysis, methods_to_try, idx, now, result, calls, notes, ret, is_scanned, produced, raised>>
    /\ UNCHANGED outside_cascade

(***************************************************************************)
(* Lines 50-64 and 85-117: the text of one image was extracted (r rows of  *)
(* it), or the extraction raised.  After the last image the tables are     *)
(* built and the call returns.                                             *)
(***************************************************************************)
ocr_extract_text ==
    /\ ocr.pc = "reading"
    /\ \/ \E r \in 0..MaxRows :
            LET rows == Append(ocr.rows, r)
            IN  ocr' = IF ocr.page = ocr.images
                       THEN [ocr EXCEPT !.pc = "returned", !.rows = rows,
                                        !.tables = ProcessOcrText(rows, 1)]
                       ELSE [ocr EXCEPT !.rows = rows, !.page = @ + 1]
       \/ \E e \in ExcMsgs :
            ocr' = [ocr EXCEPT !.pc = "raised", !.err = OcrWrapped(e)]
    /\ UNCHANGED <<pc, user_tier, analysis, methods_to_try, idx, now, result, calls, notes, ret, is_scanned, produced, raised>>
    /\ UNCHANGED outside_cascade

(***************************************************************************)
(* extract_tables, lines 115-131 and 144-145: the OCR call returned.  The  *)
(* tables with a non-empty dataframe are kept, each at the fixed           *)
(* confidence; with none kept the no-tables note is recorded.              *)
(***************************************************************************)
DfEmpty(ocr_table) == ocr_table.df_rows = 0

OcrGridsReversed(kept) ==
    [k \in 1..Len(kept) |-> [by |-> "ocr", n |-> kept[Len(kept) + 1 - k].page]]

OcrGrids(kept) == [k \in 1..Len(kept) |-> [by |-> "ocr", n |-> kept[k].page]]

WithOcrTables(r, ocr_tables) ==
    LET kept == SelectSeq(ocr_tables, LAMBDA t : ~DfEmpty(t))
    IN  IF ocr_tables # <<>> /\ kept # <<>>
        THEN [r EXCEPT !.tables = OcrGrids(kept),
                       !.confidence_scores = [k \in 1..Len(kept) |-> ocr_confidence],
                       !.extraction_method = "OCR_" \o ocr_processing_method,
                       !.total_tables = Len(kept)]
        ELSE r

ocr_returns ==
    /\ pc = "ocr"
    /\ ocr.pc = "returned"
    /\ LET filled == WithOcrTables(result, ocr.tables)
           new == NoTablesNotes(filled)
       IN  /\ result' = [filled EXCEPT !.errors = @ \o new]
           /\ notes' = notes \cup Range(new)
           /\ produced' = IF ocr.tables # <<>> THEN produced \cup {"ocr"} ELSE produced
    /\ pc' = "done"
    /\ UNCHANGED <<user_tier, analysis, methods_to_try, idx, now, ocr, calls, ret, is_scanned, raised>>
    /\ UNCHANGED outside_cascade

(***************************************************************************)
(* extract_tables, lines 132-134 and 144-145: the OCR call raised.         *)
(***************************************************************************)
OcrExceptUncaught(r, e) == [pc |-> "propagated", result |-> r]

OcrExcept(r, e) == [pc |-> "done", result |-> AddError(r, OcrFailedNote(e))]

ocr_raises ==
    /\ pc = "ocr"
    /\ ocr.pc = "raised"
    /\ LET h == OcrExcept(result, ocr.err)
           new == NoTablesNotes(h.result)
       IN  /\ result' = [h.result EXCEPT !.errors = @ \o new]
           /\ notes' = notes \cup Range(h.result.errors) \cup Range(new)
           /\ pc' = h.pc
    /\ raised' = raised \cup {"ocr"}
    /\ UNCHANGED <<user_tier, analysis, methods_to_try, idx, now, ocr, calls, ret, is_scanned, produced>>
    /\ UNCHANGED outside_cascade

Next ==
    \/ validate_pdf_file
    \/ select_optimal_method
    \/ loop_head
    \/ primary_returns
    \/ primary_raises
    \/ after_loop
    \/ enhanced_returns
    \/ text_returns
    \/ is_scanned_returns
    \/ ocr_check_tier
    \/ ocr_pdf_to_images
    \/ ocr_extract_text
    \/ ocr_returns
    \/ ocr_raises

Spec == Init /\ [][Next]_vars

(***************************************************************************)
(* The process-isolated extractor, backend/app/core/pdf_processor.py.      *)
(* extract_tables submits _limited_extract to a one-worker process pool    *)
(* and waits for the future with a timeout.  The parent and the worker     *)
(* are two processes; t is the time the worker has spent, in seconds.      *)
(***************************************************************************)
AppFiles == {"unopenable", "pdf"}
AppConfLevels == {450, 600, 900}
AppCallTimes == {0, AppMidCall, AppLongCall}
AppFaults == {"not allowed to raise maximum limit"}

app_extraction_methods == <<"pdfplumber", "camelot", "tabula">>

AppElapse(t, d) == IF t + d > AppLongCall THEN AppLongCall ELSE t + d

\* lines 168, 228 and 281: the score a table needs to be kept by a method
MinTableConfidence(m) == IF m = "camelot" THEN 400 ELSE 500

(***************************************************************************)
(* What an extraction method returns (lines 146-307).  Each wraps its work *)
(* in try/except: on a file it cannot open it returns no table and         *)
(* confidence 0; otherwise the tables it kept and the mean of their        *)
(* scores, which is above the method's bar, or no table and 0.             *)
(***************************************************************************)
MethodResult(m, c) ==
    [tables |-> IF c = 0 THEN <<>> ELSE <<[by |-> m, n |-> 1]>>,
     confidence |-> c, method |-> m]

MethodResults(file, m) ==
    IF file = "unopenable" THEN {MethodResult(m, 0)}
    ELSE {MethodResult(m, c) : c \in {0} \cup {x \in AppConfLevels : x > MinTableConfidence(m)}}

MethodTimes(file) == IF file = "unopenable" THEN {0} ELSE AppCallTimes

\* no request of the cascade is in progress
CascadeParked ==
    /\ pc = "parked"
    /\ user_tier = "free"
    /\ methods_to_try = <<>>
    /\ idx = 0
    /\ now = 0
    /\ result = TableExtractionResult
    /\ ocr = OcrIdle
    /\ calls = <<>>
    /\ notes = {}
    /\ ret = NoRet
    /\ is_scanned = "unset"
    /\ produced = {}
    /\ raised = {}
    /\ analysis = NoAnalysis

InitApp ==
    /\ CascadeParked
    /\ \E f \in AppFiles : app = [AppParked EXCEPT !.pc = "start", !.file = f]
    /\ sc = ScParked
    /\ conc = ConcParked
    /\ SecurityParked
    /\ nz = NzParked

\* lines 84-85: the pool is created and the job submitted
submit ==
    /\ app.pc = "start"
    /\ app' = [app EXCEPT !.pc = "waiting", !.w = "spawned"]
    /\ UNCHANGED outside_app

\* lines 119-127: the worker sets its memory limit, which the system may
\* refuse, and starts the loop with the initial best_result
setrlimit ==
    /\ app.w = "spawned"
    /\ \/ app' = [app EXCEPT !.w = "running", !.k = 1]
       \/ \E e \in AppFaults : app' = [app EXCEPT !.w = "raised", !.out.error = e]
    /\ UNCHANGED outside_app

\* line 88: the parent is still waiting for the future
Waiting == app.pc = "waiting"

\* lines 134-135
BetterOrEqual(r, best) == IF r.confidence >= best.confidence THEN r ELSE best

Better(r, best) == IF r.confidence > best.confidence THEN r ELSE best

\* lines 137-138
HighConfidence(r) == r.confidence >= app_confidence_threshold

(***************************************************************************)
(* _limited_extract, lines 129-144: one method returned after d seconds.   *)
(* A worker that the parent has given up on (the timeout fired while this  *)
(* call was running) ends the call after the deadline.                     *)
(***************************************************************************)
method_returns ==
    /\ app.w = "running"
    /\ \E r \in MethodResults(app.file, app_extraction_methods[app.k]),
          d \in MethodTimes(app.file) :
         /\ Waiting \/ app.t + d > app_max_processing_time
         /\ app' = [app EXCEPT !.best = Better(r, @),
                               !.calls = Append(@, r.method),
                               !.rets = Append(@, r),
                               !.t = AppElapse(@, d),
                               !.w = IF HighConfidence(r) \/ app.k = Len(app_extraction_methods)
                                     THEN "finished" ELSE "running",
                               !.k = IF HighConfidence(r) \/ app.k = Len(app_extraction_methods)
                                     THEN @ ELSE @ + 1]
    /\ UNCHANGED outside_app

\* lines 140-142: a method raised (its return statement is outside its
\* try, and the memory limit is in force); the loop goes to the next method
method_raises ==
    /\ app.w = "running"
    /\ app.file = "pdf"
    /\ app' = [app EXCEPT !.calls = Append(@, app_extraction_methods[app.k]),
                          !.w = IF app.k = Len(app_extraction_methods) THEN "finished" ELSE "running",
                          !.k = IF app.k = Len(app_extraction_methods) THEN @ ELSE @ + 1]
    /\ UNCHANGED outside_app

\* a library call on a readable file that never comes back
method_hangs ==
    /\ app.w = "running"
    /\ app.file = "pdf"
    /\ app' = [app EXCEPT !.w = "hung", !.calls = Append(@, app_extraction_methods[app.k])]
    /\ UNCHANGED outside_app

\* lines 88-94: the worker finished in time; its best_result is returned
SuccessDict(best) ==
    [keys |-> {"tables", "confidence", "method", "processing_time", "success"},
     success |-> TRUE, error |-> "", tables |-> best.tables, method |-> best.method]

future_result ==
    /\ Waiting
    /\ app.w = "finished"
    /\ app.t <= app_max_processing_time
    /\ app' = [app EXCEPT !.pc = "returned", !.out = SuccessDict(app.best)]
    /\ UNCHANGED outside_app

\* lines 106-113: what the worker raised is raised by future.result and
\* lands in the outer handler
ErrorDict(e) ==
    [keys |-> {"success", "error", "tables", "processing_time"},
     success |-> FALSE, error |-> e, tables |-> <<>>, method |-> ""]

future_raises ==
    /\ Waiting
    /\ app.w = "raised"
    /\ app' = [app EXCEPT !.pc = "returned", !.out = ErrorDict(app.out.error)]
    /\ UNCHANGED outside_app

(***************************************************************************)
(* Lines 96-104: the future was not done after max_processing_time.        *)
(* future.cancel() does nothing to a call that is running; the return      *)
(* value is built, and the return statement leaves the with block.  The    *)
(* timeout fires on a worker that hangs, that finished too late, or whose  *)
(* running call can last beyond the limit.                                 *)
(***************************************************************************)
TimeoutDict == ErrorDict("Processing timeout")

future_timeout ==
    /\ Waiting
    /\ \/ app.w = "hung"
       \/ /\ app.w = "running"
          /\ \E d \in MethodTimes(app.file) : app.t + d > app_max_processing_time
       \/ app.w = "finished" /\ app.t > app_max_processing_time
    /\ app' = [app EXCEPT !.pc = "timed_out", !.out = TimeoutDict]
    /\ UNCHANGED outside_app

(***************************************************************************)
(* Line 84: leaving the with block calls executor.shutdown(wait=True),     *)
(* which returns when the job the worker is running has ended.             *)
(***************************************************************************)
WorkerEnded == app.w \in {"finished", "raised"}

executor_exit ==
    /\ app.pc = "timed_out"
    /\ WorkerEnded
    /\ app' = [app EXCEPT !.pc = "returned"]
    /\ UNCHANGED outside_app

NextApp ==
    \/ submit
    \/ setrlimit
    \/ method_returns
    \/ method_raises
    \/ method_hangs
    \/ future_result
    \/ future_raises
    \/ future_timeout
    \/ executor_exit

SpecApp == InitApp /\ [][NextApp]_vars

\* both processes run whenever they can
SpecAppLive == SpecApp /\ WF_vars(NextApp)

(***************************************************************************)
(* The grids that are scored: every grid of up to MaxGridRows rows taken   *)
(* from a pool of rows (a header, rows of numbers, a short row with a      *)
(* blank and a missing cell, the empty row), and the pairs of a full 5x3   *)
(* grid with the same grid after 12 of its 15 cells were blanked.          *)
(***************************************************************************)
ScoreRows ==
    {<<StrCell("a"), StrCell(" "), StrCell("12")>>,
     <<IntCell("1"), IntCell("2"), FloatCell("2.5")>>,
     <<IntCell("2"), IntCell("0"), IntCell("1")>>,
     <<IntCell("3"), IntCell("3"), IntCell("3")>>,
     <<IntCell("0"), IntCell("1"), IntCell("2")>>,
     <<StrCell(""), NoneCell>>,
     <<>>}

ScoreGrids == SeqsUpTo(ScoreRows, MaxGridRows)

FullRows ==
    {<<StrCell("a"), IntCell("1"), IntCell("2")>>,
     <<IntCell("1"), IntCell("2"), FloatCell("2.5")>>}

FullGrids == [1..5 -> FullRows]

\* the cells that stay: 3 of the 15, the other 80% are blanked
Kept == {K \in SUBSET ((1..5) \X (1..3)) : Cardinality(K) = 3}

\* a blank is a missing value or an empty string
Blanks == {NoneCell, StrCell("")}

Blanked(g, keep, b) ==
    [i \in 1..5 |-> [j \in 1..3 |-> IF <<i, j>> \in keep THEN g[i][j] ELSE b]]

\* the tables of test_table_confidence_calculation: a header and three rows
\* of a name and two numbers, all cells filled ...
GoodRows ==
    {<<StrCell("a"), StrCell("12"), StrCell("$1,000")>>,
     <<StrCell("a"), IntCell("2"), FloatCell("2.5")>>}

GoodGrids ==
    {<< <<StrCell("a"), StrCell("a"), StrCell("a")>> >> \o g : g \in [1..3 -> GoodRows]}

\* ... and a 3x3 grid of empty strings but for one word
PoorGrids ==
    {[i \in 1..3 |-> [j \in 1..3 |-> IF <<i, j>> = p THEN StrCell("a") ELSE StrCell("")]] :
        p \in (1..3) \X (1..3)}

InitScore ==
    /\ CascadeParked
    /\ app = AppParked
    /\ conc = ConcParked
    /\ SecurityParked
    /\ nz = NzParked
    /\ \/ \E g \in ScoreGrids \cup GoodGrids \cup PoorGrids :
            sc = [ScParked EXCEPT !.pc = "input", !.grid = g, !.blanked = g]
       \/ \E g \in FullGrids, keep \in Kept, b \in Blanks :
            sc = [ScParked EXCEPT !.pc = "input", !.grid = g, !.blanked = Blanked(g, keep, b)]

core_scores ==
    /\ sc.pc = "input"
    /\ sc' = [sc EXCEPT !.pc = "core",
                        !.core = <<calculate_confidence(DataFrame(sc.grid)),
                                   calculate_confidence(DataFrame(sc.blanked))>>]
    /\ UNCHANGED outside_sc

app_scores ==
    /\ sc.pc = "core"
    /\ sc' = [sc EXCEPT !.pc = "scored",
                        !.app = <<calculate_table_confidence(sc.grid),
                                  calculate_table_confidence(sc.blanked)>>]
    /\ UNCHANGED outside_sc

NextScore ==
    \/ core_scores
    \/ app_scores

SpecScore == InitScore /\ [][NextScore]_vars

(***************************************************************************)
(* Two requests served concurrently by one PDFTableExtractor on one event  *)
(* loop.  A coroutine gives the loop back only where it awaits a future:   *)
(* the two run_in_executor calls of the OCR service (ocr_service.py, lines *)
(* 82 and 117).  Everything else of extract_tables, the awaits of its own  *)
(* coroutines included, runs without interruption.  What the requests      *)
(* share is the extractor (whose fields are only read), the OCR service's  *)
(* thread pool and the wall clock.                                         *)
(*                                                                         *)
(* A document fixes what every collaborator does on it.                    *)
(***************************************************************************)
Requests == {1, 2}

Ret(confidence, d) == [raises |-> FALSE, err |-> "", confidence |-> confidence, d |-> d]
Raise(e, d) == [raises |-> TRUE, err |-> e, confidence |-> <<>>, d |-> d]

Docs ==
    {[name |-> "tables.pdf", valid |-> TRUE, fault |-> "", optimal |-> "camelot", sel_d |-> 0,
      prim |-> [pdfplumber |-> Ret(<<1000>>, 0), camelot |-> Ret(<<200, 600>>, MidCall),
                tabula |-> Ret(<<>>, 0)],
      enhanced |-> <<>>, text |-> <<>>, scanned |-> FALSE, ocr_rows |-> <<>>, ocr_fault |-> ""],
     [name |-> "slow-scan.pdf", valid |-> TRUE, fault |-> "", optimal |-> "pdfplumber", sel_d |-> 0,
      prim |-> [pdfplumber |-> Raise("corrupt file", MidCall), camelot |-> Ret(<<200>>, MidCall),
                tabula |-> Ret(<<1000>>, 0)],
      enhanced |-> <<>>, text |-> <<>>, scanned |-> TRUE, ocr_rows |-> <<2, 1, 2>>, ocr_fault |-> ""],
     [name |-> "text.pdf", valid |-> TRUE, fault |-> "", optimal |-> "tabula", sel_d |-> MidCall,
      prim |-> [pdfplumber |-> Ret(<<>>, 0), camelot |-> Ret(<<>>, 0), tabula |-> Ret(<<>>, 0)],
      enhanced |-> <<>>, text |-> <<700>>, scanned |-> FALSE, ocr_rows |-> <<>>, ocr_fault |-> ""],
     [name |-> "bad-scan.pdf", valid |-> TRUE, fault |-> "", optimal |-> "pdfplumber", sel_d |-> 0,
      prim |-> [pdfplumber |-> Ret(<<>>, 0), camelot |-> Ret(<<>>, 0), tabula |-> Ret(<<200>>, 0)],
      enhanced |-> <<>>, text |-> <<>>, scanned |-> TRUE, ocr_rows |-> <<2, 2>>,
      ocr_fault |-> "tesseract failed"],
     [name |-> "missing.pdf", valid |-> FALSE, fault |-> "No such file or directory",
      optimal |-> "pdfplumber", sel_d |-> 0,
      prim |-> [pdfplumber |-> Ret(<<>>, 0), camelot |-> Ret(<<>>, 0), tabula |-> Ret(<<>>, 0)],
      enhanced |-> <<>>, text |-> <<>>, scanned |-> FALSE, ocr_rows |-> <<>>, ocr_fault |-> ""]}

\* run_in_executor: how long a job of the thread pool takes
JobTimes == {0, MidCall}

NewRequest(doc, tier) ==
    [doc |-> doc, tier |-> tier, pc |-> "pending", start |-> 0,
     result |-> TableExtractionResult, page |-> 0]

(***************************************************************************)
(* extract_tables, lines 62-96: the for loop from round i on, at time      *)
(* clock, for a request started at time start.                             *)
(***************************************************************************)
RECURSIVE PrimaryLoop(_, _, _, _, _, _)
PrimaryLoop(doc, M, i, clock, start, r) ==
    IF i > Len(M) THEN [result |-> r, clock |-> clock]
    ELSE IF clock - start > max_processing_time
    THEN [result |-> AddError(r, TimeoutNote), clock |-> clock]
    ELSE LET method == M[i]
             o == doc.prim[method]
             tables == Grids(method, Len(o.confidence))
             adopted == ~o.raises /\ Adopt(tables, o.confidence)
             r2 == IF o.raises THEN AddError(r, StrategyNote(method, o.err))
                   ELSE IF adopted
                   THEN [r EXCEPT !.tables = tables,
                                  !.confidence_scores = o.confidence,
                                  !.extraction_method = method,
                                  !.total_tables = Len(tables)]
                   ELSE r
             nxt == IF o.raises THEN AfterRaise(i) ELSE AfterReturn(adopted, i)
         IN  IF nxt[1] = "loop"
             THEN PrimaryLoop(doc, M, nxt[2], clock + o.d, start, r2)
             ELSE [result |-> r2, clock |-> clock + o.d]

(***************************************************************************)
(* extract_tables, lines 48-145, from its entry to its return or to the    *)
(* first await of a future (the page images of the OCR service).           *)
(***************************************************************************)
RunToSuspension(doc, tier, clock, start) ==
    IF ~doc.valid
    THEN LET h == OuterHandler(TableExtractionResult, SecurityErrorMsg(doc.fault))
         IN  [pc |-> h.pc, result |-> h.result, clock |-> clock]
    ELSE
    LET loop == PrimaryLoop(doc, MethodsToTry(doc.optimal), 1, clock + doc.sel_d, start,
                            TableExtractionResult)
        r == loop.result
    IN  IF ~NeedsFallback(r) THEN [pc |-> "done", result |-> r, clock |-> loop.clock]
        ELSE IF doc.enhanced # <<>>
        THEN [pc |-> "done", result |-> FallbackResult("pdfplumber_enhanced", doc.enhanced),
              clock |-> loop.clock]
        ELSE IF doc.text # <<>>
        THEN [pc |-> "done", result |-> FallbackResult("text_parsing", doc.text),
              clock |-> loop.clock]
        ELSE IF ShouldOcr(tier, doc.scanned)
        THEN [pc |-> "ocr_images", result |-> r, clock |-> loop.clock]
        ELSE [pc |-> "done",
              result |-> [r EXCEPT !.errors = @ \o ScanNotes(tier, doc.scanned)
                                                \o NoTablesNotes(r)],
              clock |-> loop.clock]

Begin(q, clock, start) ==
    LET out == RunToSuspension(q.doc, q.tier, clock, start)
    IN  [req |-> [q EXCEPT !.pc = out.pc, !.start = start, !.result = out.result],
         clock |-> out.clock]

\* lines 115-131 and 144-145, and lines 132-134 and 144-145
OcrReturned(q, ocr_tables) ==
    LET filled == WithOcrTables(q.result, ocr_tables)
    IN  [q EXCEPT !.pc = "done",
                  !.result = [filled EXCEPT !.errors = @ \o NoTablesNotes(filled)]]

OcrFailed(q, e) ==
    LET h == OcrExcept(q.result, e)
    IN  [q EXCEPT !.pc = h.pc,
                  !.result = [h.result EXCEPT !.errors = @ \o NoTablesNotes(h.result)]]

(***************************************************************************)
(* The coroutine resumed with the outcome of its job: the page images, or  *)
(* the text of one page (a faulty document fails on its last page).        *)
(***************************************************************************)
Resume(q) ==
    IF q.pc = "ocr_images"
    THEN IF q.doc.ocr_rows = <<>> THEN OcrReturned(q, ProcessOcrText(<<>>, 1))
         ELSE [q EXCEPT !.pc = "ocr_text", !.page = 1]
    ELSE IF q.page < Len(q.doc.ocr_rows) THEN [q EXCEPT !.page = @ + 1]
         ELSE IF q.doc.ocr_fault # "" THEN OcrFailed(q, OcrWrapped(q.doc.ocr_fault))
         ELSE OcrReturned(q, ProcessOcrText(q.doc.ocr_rows, 1))

InitConc ==
    /\ CascadeParked
    /\ app = AppParked
    /\ sc = ScParked
    /\ SecurityParked
    /\ nz = NzParked
    /\ \E d1 \in Docs, d2 \in Docs, t1 \in Tiers, t2 \in Tiers :
         conc = [reqs |-> <<NewRequest(d1, t1), NewRequest(d2, t2)>>,
                 clock |-> 0, started |-> <<>>]

\* line 46: start_time is a local of the call, read from the clock
StartTimeOfFirst(clock, started) == IF started = <<>> THEN clock ELSE started[1]

StartTime(clock, started) == clock

\* the event loop runs a request from its entry to its first suspension
task_starts(i) ==
    /\ i \in DOMAIN conc.reqs
    /\ conc.reqs[i].pc = "pending"
    /\ LET start == StartTime(conc.clock, conc.started)
           b == Begin(conc.reqs[i], conc.clock, start)
       IN  conc' = [conc EXCEPT !.reqs[i] = b.req,
                                !.clock = b.clock,
                                !.started = Append(@, start)]
    /\ UNCHANGED outside_conc

\* a job of the thread pool ends and the event loop resumes its request
job_done(i) ==
    /\ i \in DOMAIN conc.reqs
    /\ conc.reqs[i].pc \in {"ocr_images", "ocr_text"}
    /\ \E d \in JobTimes :
         conc' = [conc EXCEPT !.reqs[i] = Resume(@), !.clock = @ + d]
    /\ UNCHANGED outside_conc

NextConc ==
    \/ \E i \in Requests : task_starts(i)
    \/ \E i \in Requests : job_done(i)

SpecConc == InitConc /\ [][NextConc]_vars

(***************************************************************************)
(* The RateLimiter of backend/app/security/rate_limiter.py: request        *)
(* threads calling check_rate_limit and the cleanup thread, serialized by  *)
(* the limiter's lock.  A call is cut where another thread can run: before *)
(* the lock is taken, and, inside the lock, between the count of the       *)
(* history and the append (two reads of the clock).  Time advances through *)
(* the instants at which a window or a block ends.                         *)
(***************************************************************************)
Threads == {1, 2}
Instants == <<0, Window, Window + 1, Window + 1 + BlockDuration>>

IpA == <<"1", "0", ".", "1">>
IpB == <<"f", "e", "8", "0", ":", ":", "2">>
Endpoints == {"upload", "security", "default"}

\* what a thread asks: the first any endpoint for one address, or without
\* an address; the second the upload endpoint for either address
Asks(t) ==
    IF t = 1 THEN ({IpA} \X Endpoints) \cup {<< <<>>, "upload" >>}
    ELSE {IpA, IpB} \X {"upload"}

\* lines 39-45, every limit lowered to Limit requests per window
rate_limits(endpoint) == [requests |-> Limit, window |-> Window]

\* _sanitize_ip, lines 203-209: re.sub(r'[^\d\.\:a-fA-F]', '', ip)[:45]
AddressChars ==
    {"0", "1", "2", "3", "4", "5", "6", "7", "8", "9", ".", ":",
     "a", "b", "c", "d", "e", "f", "A", "B", "C", "D", "E", "F"}

sanitize_ip(ip) ==
    LET kept == SelectSeq(ip, LAMBDA c : c \in AddressChars)
        clean_ip == SubSeq(kept, 1, Min(Len(kept), MaxIpLength))
    IN  IF clean_ip # <<>> THEN clean_ip ELSE <<"u", "n", "k", "n", "o", "w", "n">>

\* _clean_old_requests, lines 229-234, at time t
RECURSIVE clean_old_requests(_, _, _)
clean_old_requests(request_history, window, t) ==
    IF request_history # <<>> /\ Head(request_history) < t - window
    THEN clean_old_requests(Tail(request_history), window, t)
    ELSE request_history

\* _is_ip_blocked, lines 211-222: the blocks that are left at time t
Unexpired(blocked_ips, ip, t) ==
    [i \in {j \in DOMAIN blocked_ips : ~(j = ip /\ t > blocked_ips[j])} |-> blocked_ips[i]]

\* self.request_history[clean_ip][endpoint] of a defaultdict: the entry is
\* created when it is missing
Entry(request_history, key) ==
    IF key \in DOMAIN request_history THEN request_history[key] ELSE <<>>

Put(f, key, v) == [k \in DOMAIN f \cup {key} |-> IF k = key THEN v ELSE f[k]]

\* _is_aggressive_behavior, lines 236-258: the histories of the IP are
\* cleaned and those at their limit counted
CleanedFor(request_history, ip, t) ==
    [k \in DOMAIN request_history |->
        IF k[1] = ip THEN clean_old_requests(request_history[k], rate_limits(k[2]).window, t)
        ELSE request_history[k]]

EndpointsViolated(request_history, ip) ==
    Cardinality({k \in DOMAIN request_history :
                    k[1] = ip /\ Len(request_history[k]) >= rate_limits(k[2]).requests})

\* out: how the thread's last call ended ("admitted", "rejected", "blocked",
\* "invalid")
IdleThread == [pc |-> "idle", ip |-> <<>>, endpoint |-> "", out |-> ""]

Returned(me, out) == [me EXCEPT !.pc = "idle", !.out = out]

LogKeys == {IpA, IpB} \X Endpoints

InitRl ==
    /\ CascadeParked
    /\ app = AppParked
    /\ sc = ScParked
    /\ conc = ConcParked
    /\ fh = FhParked
    /\ nz = NzParked
    /\ rl = [RlParked EXCEPT !.pc = "serving",
                             !.th = [t \in Threads |-> IdleThread],
                             !.cleaner = [pc |-> "sleeping", current_time |-> 0],
                             !.log = [k \in LogKeys |-> <<>>]]

RlNow == Instants[rl.clock]

\* time passes
rl_tick ==
    /\ rl.pc = "serving"
    /\ rl.clock < Len(Instants)
    /\ rl' = [rl EXCEPT !.clock = @ + 1]
    /\ UNCHANGED outside_rl

\* the requests admitted so far
RECURSIVE LogSize(_, _)
LogSize(log, keys) ==
    IF keys = {} THEN 0
    ELSE LET k == CHOOSE j \in keys : TRUE
         IN  Len(log[k]) + LogSize(log, keys \ {k})

\* lines 76-82: a thread enters check_rate_limit; an empty ip is refused
\* with RateLimitExceeded("Invalid request"), any other is sanitized and
\* the thread goes for the lock
rl_call(t) ==
    /\ rl.pc = "serving"
    /\ rl.th[t].pc = "idle"
    /\ LogSize(rl.log, LogKeys) < MaxAdmitted
    /\ \E ask \in Asks(t) :
         rl' = [rl EXCEPT !.th[t] = IF ask[1] = <<>> THEN Returned(IdleThread, "invalid")
                                    ELSE [pc |-> "sanitized", ip |-> ask[1], endpoint |-> ask[2],
                                          out |-> ""]]
    /\ UNCHANGED outside_rl

\* with self._lock
LockFreeAlways(lock) == TRUE

LockFree(lock) == lock = 0

\* lines 84-117: the thread takes the lock; a blocked IP is refused; the
\* history of the IP on the endpoint is cleaned and counted; at the limit
\* the request is refused, and the IP blocked when it is at its limit on
\* three endpoints.  A refusal leaves the with block and frees the lock.
rl_count(t) ==
    /\ rl.pc = "serving"
    /\ rl.th[t].pc = "sanitized"
    /\ LockFree(rl.lock)
    /\ LET me == rl.th[t]
           clean_ip == sanitize_ip(me.ip)
           key == <<clean_ip, me.endpoint>>
           rate_limit == rate_limits(me.endpoint)
           blocked == Unexpired(rl.blocked_ips, clean_ip, RlNow)
           endpoint_history == clean_old_requests(Entry(rl.request_history, key), rate_limit.window, RlNow)
           history == Put(rl.request_history, key, endpoint_history)
           swept == CleanedFor(history, clean_ip, RlNow)
       IN  IF clean_ip \in DOMAIN blocked
           THEN rl' = [rl EXCEPT !.blocked_ips = blocked, !.th[t] = Returned(me, "blocked")]
           ELSE IF Len(endpoint_history) >= rate_limit.requests
           THEN IF EndpointsViolated(swept, clean_ip) >= AggressiveEndpoints
                THEN rl' = [rl EXCEPT !.blocked_ips = Put(blocked, clean_ip, RlNow + BlockDuration),
                                      !.request_history = swept,
                                      !.th[t] = Returned(me, "blocked")]
                ELSE rl' = [rl EXCEPT !.blocked_ips = blocked,
                                      !.request_history = swept,
                                      !.th[t] = Returned(me, "rejected")]
           ELSE rl' = [rl EXCEPT !.blocked_ips = blocked,
                                 !.request_history = history,
                                 !.lock = t,
                                 !.th[t].pc = "counted"]
    /\ UNCHANGED outside_rl

\* lines 119-126: the request is recorded with the time read now, the lock
\* is freed and the call returns (True, None).  The deque the thread holds
\* is the one of the registry unless the entry was deleted meanwhile.
rl_append(t) ==
    /\ rl.pc = "serving"
    /\ rl.th[t].pc = "counted"
    /\ LET me == rl.th[t]
           key == <<sanitize_ip(me.ip), me.endpoint>>
       IN  rl' = [rl EXCEPT
                    !.request_history =
                        IF key \in DOMAIN @ THEN [@ EXCEPT ![key] = Append(@, RlNow)] ELSE @,
                    !.log[<<me.ip, me.endpoint>>] = Append(@, RlNow),
                    !.lock = 0,
                    !.th[t] = Returned(me, "admitted")]
    /\ UNCHANGED outside_rl

\* _periodic_cleanup, line 277: the cleanup thread wakes and reads the clock
cleanup_wakes ==
    /\ rl.pc = "serving"
    /\ rl.cleaner.pc = "sleeping"
    /\ rl' = [rl EXCEPT !.cleaner = [pc |-> "waiting", current_time |-> RlNow]]
    /\ UNCHANGED outside_rl

\* lines 279-313: under the lock every history is cleaned, the empty ones
\* are removed, and the blocks that had expired at the time read are
\* removed; the thread goes back to sleep
periodic_cleanup ==
    /\ rl.pc = "serving"
    /\ rl.cleaner.pc = "waiting"
    /\ LockFree(rl.lock)
    /\ LET cleaned == [k \in DOMAIN rl.request_history |->
                          clean_old_requests(rl.request_history[k], rate_limits(k[2]).window, RlNow)]
           kept == {k \in DOMAIN cleaned : cleaned[k] # <<>>}
           unexpired == {i \in DOMAIN rl.blocked_ips : ~(rl.cleaner.current_time > rl.blocked_ips[i])}
       IN  rl' = [rl EXCEPT !.request_history = [k \in kept |-> cleaned[k]],
                            !.blocked_ips = [i \in unexpired |-> rl.blocked_ips[i]],
                            !.cleaner = [pc |-> "sleeping", current_time |-> 0]]
    /\ UNCHANGED outside_rl

NextRl ==
    \/ rl_tick
    \/ \E t \in Threads : rl_call(t)
    \/ \E t \in Threads : rl_count(t)
    \/ \E t \in Threads : rl_append(t)
    \/ cleanup_wakes
    \/ periodic_cleanup

SpecRl == InitRl /\ [][NextRl]_vars

(***************************************************************************)
(* The SecureFileHandler of backend/app/security/file_handler.py: worker   *)
(* threads calling secure_save_file, get_file_path and cleanup_file, and   *)
(* the cleanup thread.  Only the reads and writes of the registry are      *)
(* under the registry lock, so a call is cut at each of them and at each   *)
(* access to the disk.  The disk maps the id of a stored file to its       *)
(* mtime, the registry maps it to created_at.                              *)
(***************************************************************************)
Workers == {1, 2}
Uploaders == {1}
Janitor == 0
FileIds == {"id1", "id2"}
InvalidId == "../../../etc/passwd"
Expiry == file_expiry_hours * SecondsPerHour
FhInstants == <<0, Expiry, Expiry + 1>>

\* a thread outside any call; ret is what its last call returned, after and
\* old what held of the file when its last get_file_path began
IdleWorker ==
    [op |-> "", pc |-> "idle", id |-> "", info |-> -1, after |-> FALSE, old |-> FALSE,
     ret |-> "", todo |-> <<>>]

InitFh ==
    /\ CascadeParked
    /\ app = AppParked
    /\ sc = ScParked
    /\ conc = ConcParked
    /\ rl = RlParked
    /\ nz = NzParked
    /\ fh = [pc |-> "serving", clock |-> 1, disk |-> <<>>, registry |-> <<>>,
             th |-> [w \in Workers \cup {Janitor} |-> IdleWorker],
             used |-> {}, cleaned |-> {}]

FhNow == FhInstants[fh.clock]

\* _is_file_expired, lines 311-323
IsFileExpired(created_at, t) == t > created_at + Expiry

\* _remove_from_registry, lines 325-328
RemoveFromRegistryKeeps(registry, id) == registry

RemoveFromRegistry(registry, id) == [i \in DOMAIN registry \ {id} |-> registry[i]]

Without(disk, id) == [i \in DOMAIN disk \ {id} |-> disk[i]]

\* the call returns: the thread keeps what the call was and what it gave
Return(me, value) == [me EXCEPT !.pc = "idle", !.info = -1, !.todo = <<>>, !.ret = value]

\* time passes
fh_tick ==
    /\ fh.pc = "serving"
    /\ fh.clock < Len(FhInstants)
    /\ fh' = [fh EXCEPT !.clock = @ + 1]
    /\ UNCHANGED outside_fh

\* secure_save_file, lines 78-96: the size, the name and the extension are
\* accepted and a fresh uuid4 is drawn
save_called(w) ==
    /\ fh.pc = "serving"
    /\ w \in Uploaders
    /\ fh.th[w].pc = "idle"
    /\ \E id \in FileIds \ fh.used :
         fh' = [fh EXCEPT !.used = @ \cup {id},
                          !.th[w] = [IdleWorker EXCEPT !.op = "secure_save_file", !.pc = "s_write", !.id = id]]
    /\ UNCHANGED outside_fh

\* lines 98-105 and 119-127: the file is written; a failure removes what
\* was written and raises SecurityError
save_writes(w) ==
    /\ fh.pc = "serving"
    /\ fh.th[w].pc = "s_write"
    /\ \/ fh' = [fh EXCEPT !.disk = Put(@, fh.th[w].id, FhNow), !.th[w].pc = "s_register"]
       \/ fh' = [fh EXCEPT !.th[w] = Return(@, "SecurityError")]
    /\ UNCHANGED outside_fh

\* lines 107-117: the file is registered under the lock and its id returned
save_registers(w) ==
    /\ fh.pc = "serving"
    /\ fh.th[w].pc = "s_register"
    /\ fh' = [fh EXCEPT !.registry = Put(@, fh.th[w].id, FhNow),
                        !.th[w] = Return(@, fh.th[w].id)]
    /\ UNCHANGED outside_fh

\* get_file_path, lines 138-139: an id that is not a UUID gives None
get_called(w) ==
    /\ fh.pc = "serving"
    /\ w \in Workers
    /\ fh.th[w].pc = "idle"
    /\ \E id \in FileIds \cup {InvalidId} :
         LET me == [IdleWorker EXCEPT
                      !.op = "get_file_path", !.id = id,
                      !.after = id \in fh.cleaned,
                      !.old = id \in DOMAIN fh.registry /\ FhNow > fh.registry[id] + Expiry]
         IN  fh' = [fh EXCEPT !.th[w] = IF id = InvalidId THEN Return(me, "None")
                                        ELSE [me EXCEPT !.pc = "g_read"]]
    /\ UNCHANGED outside_fh

\* lines 141-145: the registry is read under the lock
get_reads(w) ==
    /\ fh.pc = "serving"
    /\ fh.th[w].pc = "g_read"
    /\ LET id == fh.th[w].id
       IN  IF id \in DOMAIN fh.registry
           THEN fh' = [fh EXCEPT !.th[w].pc = "g_exists", !.th[w].info = fh.registry[id]]
           ELSE fh' = [fh EXCEPT !.th[w] = Return(@, "None")]
    /\ UNCHANGED outside_fh

\* lines 149-152: a file that is gone is forgotten
get_checks_disk(w) ==
    /\ fh.pc = "serving"
    /\ fh.th[w].pc = "g_exists"
    /\ LET id == fh.th[w].id
       IN  IF id \in DOMAIN fh.disk
           THEN fh' = [fh EXCEPT !.th[w].pc = "g_expired"]
           ELSE fh' = [fh EXCEPT !.registry = RemoveFromRegistry(@, id),
                                 !.th[w] = Return(@, "None")]
    /\ UNCHANGED outside_fh

\* lines 154-159: an expired file is cleaned up, any other is handed out
get_checks_age(w) ==
    /\ fh.pc = "serving"
    /\ fh.th[w].pc = "g_expired"
    /\ IF IsFileExpired(fh.th[w].info, FhNow)
       THEN fh' = [fh EXCEPT !.th[w].pc = "c_read"]
       ELSE fh' = [fh EXCEPT !.th[w] = Return(@, "path")]
    /\ UNCHANGED outside_fh

\* cleanup_file is called by a client
cleanup_called(w) ==
    /\ fh.pc = "serving"
    /\ w \in Workers
    /\ fh.th[w].pc = "idle"
    /\ \E id \in FileIds :
         fh' = [fh EXCEPT !.th[w] = [IdleWorker EXCEPT !.op = "cleanup_file", !.pc = "c_read", !.id = id]]
    /\ UNCHANGED outside_fh

\* where cleanup_file returns to: its caller is a client, get_file_path
\* (which then returns None), or the loop of _periodic_cleanup
CleanupReturns(me, value) ==
    CASE me.op = "cleanup_file" -> Return(me, value)
      [] me.op = "get_file_path" -> Return(me, "None")
      [] OTHER -> IF me.todo = <<>> THEN [me EXCEPT !.pc = "p_orphans"]
                  ELSE [me EXCEPT !.pc = "c_read", !.id = Head(me.todo), !.todo = Tail(me.todo)]

\* cleanup_file, lines 226-230: the registry is read under the lock
cleanup_reads(w) ==
    /\ fh.pc = "serving"
    /\ fh.th[w].pc = "c_read"
    /\ LET me == fh.th[w]
       IN  IF me.id \in DOMAIN fh.registry
           THEN fh' = [fh EXCEPT !.th[w].pc = "c_exists", !.th[w].info = fh.registry[me.id]]
           ELSE fh' = [fh EXCEPT !.th[w] = CleanupReturns(me, "False")]
    /\ UNCHANGED outside_fh

\* line 235: file_path.exists()
cleanup_checks_disk(w) ==
    /\ fh.pc = "serving"
    /\ fh.th[w].pc = "c_exists"
    /\ fh' = [fh EXCEPT !.th[w].pc = IF fh.th[w].id \in DOMAIN fh.disk THEN "c_unlink" ELSE "c_remove"]
    /\ UNCHANGED outside_fh

\* line 236: file_path.unlink(); it raises when the file is gone meanwhile
\* or cannot be removed, and the handler of lines 247-249 returns False
cleanup_unlinks(w) ==
    /\ fh.pc = "serving"
    /\ fh.th[w].pc = "c_unlink"
    /\ LET me == fh.th[w]
       IN  \/ /\ me.id \in DOMAIN fh.disk
              /\ fh' = [fh EXCEPT !.disk = Without(@, me.id), !.th[w].pc = "c_remove"]
           \/ fh' = [fh EXCEPT !.th[w] = CleanupReturns(me, "False")]
    /\ UNCHANGED outside_fh

\* lines 239-245: the exports are removed, the file is forgotten, and the
\* call returns True
cleanup_forgets(w) ==
    /\ fh.pc = "serving"
    /\ fh.th[w].pc = "c_remove"
    /\ LET me == fh.th[w]
       IN  fh' = [fh EXCEPT !.registry = RemoveFromRegistry(@, me.id),
                            !.cleaned = @ \cup {me.id},
                            !.th[w] = CleanupReturns(me, "True")]
    /\ UNCHANGED outside_fh

\* the ids of a set in the order of the registry
RECURSIVE InOrder(_)
InOrder(ids) ==
    IF ids = {} THEN <<>>
    ELSE LET id == CHOOSE i \in ids : \A j \in ids : fh.registry[i] <= fh.registry[j]
         IN  <<id>> \o InOrder(ids \ {id})

\* _periodic_cleanup, lines 366-383: the cleanup thread collects the
\* expired files under the lock and cleans them up one by one
janitor_wakes ==
    /\ fh.pc = "serving"
    /\ fh.th[Janitor].pc = "idle"
    /\ LET expired_files == InOrder({id \in DOMAIN fh.registry : IsFileExpired(fh.registry[id], FhNow)})
       IN  fh' = [fh EXCEPT !.th[Janitor] =
                     CleanupReturns([IdleWorker EXCEPT !.op = "_periodic_cleanup", !.todo = expired_files],
                                    "")]
    /\ UNCHANGED outside_fh

\* _cleanup_orphaned_files, lines 385-403: every file of the directory
\* older than the expiry is removed; the thread goes back to sleep
janitor_orphans ==
    /\ fh.pc = "serving"
    /\ fh.th[Janitor].pc = "p_orphans"
    /\ fh' = [fh EXCEPT !.disk = [i \in {j \in DOMAIN @ : ~(FhNow - @[j] > Expiry)} |-> @[i]],
                        !.th[Janitor] = IdleWorker]
    /\ UNCHANGED outside_fh

NextFh ==
    \/ fh_tick
    \/ \E w \in Uploaders : save_called(w)
    \/ \E w \in Uploaders : save_writes(w)
    \/ \E w \in Uploaders : save_registers(w)
    \/ \E w \in Workers : get_called(w)
    \/ \E w \in Workers : get_reads(w)
    \/ \E w \in Workers : get_checks_disk(w)
    \/ \E w \in Workers : get_checks_age(w)
    \/ \E w \in Workers : cleanup_called(w)
    \/ \E w \in Workers \cup {Janitor} : cleanup_reads(w)
    \/ \E w \in Workers \cup {Janitor} : cleanup_checks_disk(w)
    \/ \E w \in Workers \cup {Janitor} : cleanup_unlinks(w)
    \/ \E w \in Workers \cup {Janitor} : cleanup_forgets(w)
    \/ janitor_wakes
    \/ janitor_orphans

SpecFh == InitFh /\ [][NextFh]_vars

(***************************************************************************)
(* The two builders of grids from raw rows: _parse_text_table of           *)
(* backend/core/pdf_processor.py (lines 480-525) and                       *)
(* _extract_tables_from_page of backend/core/ocr_service.py (lines         *)
(* 140-178).  A line of text is given as the fields it splits into on the  *)
(* separator that was chosen; an OCR block carries its text and the        *)
(* position of its box.  raw holds the rows before they are made           *)
(* rectangular, table the header row and the data rows of the frame.       *)
(***************************************************************************)
\* cell.strip()
Strip(cell) ==
    CASE cell = " " -> ""
      [] cell = " 12" -> "12"
      [] OTHER -> cell

TextLines ==
    {<<"h1", "h2">>,
     <<"a", " 12", "x">>,
     <<"b", " ", "7">>,
     <<"c">>,
     <<" ">>}

\* _extract_via_text_parsing, line 452: at least three table-like lines
TextInputs == {lines \in SeqsUpTo(TextLines, MaxLines) : Len(lines) >= min_table_lines}

OcrBlocks ==
    {[text |-> "h1", x |-> 0, y |-> 0],
     [text |-> "h2", x |-> 50, y |-> 0],
     [text |-> "h3", x |-> 100, y |-> 8],
     [text |-> "a", x |-> 0, y |-> 16],
     [text |-> "b", x |-> 0, y |-> 40],
     [text |-> "12", x |-> 50, y |-> 40]}

\* _process_ocr_text_to_tables, lines 127-136: a page with a block at least
PageInputs == SUBSET OcrBlocks \ {{}}

InitNz ==
    /\ CascadeParked
    /\ app = AppParked
    /\ sc = ScParked
    /\ conc = ConcParked
    /\ SecurityParked
    /\ \/ \E lines \in TextInputs :
            nz = [pc |-> "lines", lines |-> lines, page_data |-> {}, raw |-> <<>>,
                  table |-> NoTable]
       \/ \E page_data \in PageInputs :
            nz = [pc |-> "page", lines |-> <<>>, page_data |-> page_data, raw |-> <<>>,
                  table |-> NoTable]

\* lines 499-503: the cells of a line, blank ones dropped
ParsedRow(line) ==
    LET cells == SelectSeq(line, LAMBDA cell : Strip(cell) # "")
    IN  [j \in 1..Len(cells) |-> Strip(cells[j])]

\* lines 499-503: parsed_data, rows without a cell dropped
ParsedData(lines) ==
    LET rows == [i \in 1..Len(lines) |-> ParsedRow(lines[i])]
    IN  SelectSeq(rows, LAMBDA row : row # <<>>)

\* lines 490-496: the separator is kept if the lines average two columns
EnoughColumns(lines) ==
    Sum([i \in 1..Len(lines) |-> Len(lines[i])]) >= 2 * Len(lines)

\* lines 481-503 of _parse_text_table
parse_text_table_splits ==
    /\ nz.pc = "lines"
    /\ IF EnoughColumns(nz.lines) /\ Len(ParsedData(nz.lines)) >= 2
       THEN nz' = [nz EXCEPT !.pc = "parsed", !.raw = ParsedData(nz.lines)]
       ELSE nz' = [nz EXCEPT !.pc = "done", !.raw = ParsedData(nz.lines)]
    /\ UNCHANGED outside_nz

\* lines 514-518: a short row is padded with '', a long row is cut
NormalizeRow(row, max_cols) ==
    [j \in 1..max_cols |-> IF j <= Len(row) THEN row[j] ELSE ""]

\* lines 505-521 of _parse_text_table
parse_text_table_normalizes ==
    /\ nz.pc = "parsed"
    /\ LET headers == nz.raw[1]
           data_rows == Tail(nz.raw)
           max_cols == Len(headers)
           normalized_rows ==
               [i \in 1..Len(data_rows) |-> NormalizeRow(data_rows[i], max_cols)]
       IN  nz' = [nz EXCEPT !.pc = "done",
                            !.table = [made |-> TRUE, headers |-> headers,
                                       rows |-> normalized_rows]]
    /\ UNCHANGED outside_nz

\* sorted(...) of blocks that differ in their position: by y then x (line
\* 146), or by x, blocks of one x staying in their order by y (line 195)
RECURSIVE SortedBlocks(_, _)
SortedBlocks(S, key) ==
    IF S = {} THEN <<>>
    ELSE LET Before(a, b) ==
                 IF key = "yx"
                 THEN a.y < b.y \/ (a.y = b.y /\ a.x <= b.x)
                 ELSE a.x < b.x \/ (a.x = b.x /\ a.y <= b.y)
             first == CHOOSE a \in S : \A b \in S : Before(a, b)
         IN  <<first>> \o SortedBlocks(S \ {first}, key)

Abs(n) == IF n < 0 THEN 0 - n ELSE n

\* lines 195 and 204: the texts of a row, left to right
RowText(current_row) ==
    LET blocks == SortedBlocks(Range(current_row), "xy")
    IN  [j \in 1..Len(blocks) |-> blocks[j].text]

\* _group_text_into_rows, lines 180-207, from its k-th block on
RECURSIVE GroupTextIntoRows(_, _, _, _, _)
GroupTextIntoRows(sorted_data, k, current_row, current_y, rows) ==
    LET closed == IF current_row # <<>> THEN Append(rows, RowText(current_row)) ELSE rows
    IN  IF k > Len(sorted_data) THEN closed
        ELSE IF Abs(sorted_data[k].y - current_y) <= y_tolerance
        THEN GroupTextIntoRows(sorted_data, k + 1, Append(current_row, sorted_data[k]),
                               current_y, rows)
        ELSE GroupTextIntoRows(sorted_data, k + 1, <<sorted_data[k]>>,
                               sorted_data[k].y, closed)

\* lines 142-149 of _extract_tables_from_page
group_text_into_rows ==
    /\ nz.pc = "page"
    /\ LET sorted_data == SortedBlocks(nz.page_data, "yx")
           rows == GroupTextIntoRows(sorted_data, 1, <<>>, sorted_data[1].y, <<>>)
       IN  nz' = [nz EXCEPT !.pc = "grouped", !.raw = rows]
    /\ UNCHANGED outside_nz

\* lines 151-176 of _extract_tables_from_page
extract_tables_from_page_pads ==
    /\ nz.pc = "grouped"
    /\ IF Len(nz.raw) < 2
       THEN nz' = [nz EXCEPT !.pc = "done"]
       ELSE LET rows == nz.raw
                max_cols == CHOOSE n \in {Len(rows[i]) : i \in 1..Len(rows)} :
                                \A i \in 1..Len(rows) : Len(rows[i]) <= n
                table_data == [i \in 1..Len(rows) |-> NormalizeRow(rows[i], max_cols)]
            IN  nz' = [nz EXCEPT !.pc = "done",
                                 !.table = [made |-> TRUE, headers |-> table_data[1],
                                            rows |-> Tail(table_data)]]
    /\ UNCHANGED outside_nz

NextNz ==
    \/ parse_text_table_splits
    \/ parse_text_table_normalizes
    \/ group_text_into_rows
    \/ extract_tables_from_page_pads

SpecNz == InitNz /\ [][NextNz]_vars

(***************************************************************************)
(* Vocabulary of the properties.                                           *)
(***************************************************************************)
PrimaryNames == {"pdfplumber", "camelot", "tabula"}
FallbackNames == {"pdfplumber_enhanced", "text_parsing"}
OcrCall == "extract_tables_from_scanned_pdf"

Last(s) == s[Len(s)]

PrimaryCalls == SelectSeq(calls, LAMBDA c : c \in PrimaryNames)

DefaultPos(m) == CHOOSE k \in 1..Len(extraction_methods) : extraction_methods[k] = m

\* the last primary strategy returned grids whose mean confidence is >= 0.6
RetCleared ==
    /\ ret.method # ""
    /\ ~ret.raised
    /\ Len(ret.confidence) > 0
    /\ Sum(ret.confidence) >= 600 * Len(ret.confidence)

\* the last primary strategy returned, with no grid or with a mean below 0.6
RetBelow ==
    /\ ret.method # ""
    /\ ~ret.raised
    /\ \/ Len(ret.confidence) = 0
       \/ Sum(ret.confidence) < 600 * Len(ret.confidence)

(***************************************************************************)
(* C1.  Once a primary strategy has returned a non-empty list of grids     *)
(* whose mean confidence is at least the threshold, nothing else is        *)
(* invoked for the request: that strategy stays the last collaborator      *)
(* called (no later primary, no fallback, no is_scanned check, no OCR      *)
(* call), the loop is left, and the result carries that strategy's name    *)
(* and its grids.                                                          *)
(***************************************************************************)
C1_FirstWinnerEndsCascade ==
    RetCleared =>
        /\ pc \in {"after_loop", "done"}
        /\ Last(calls) = ret.method
        /\ ocr.pc = "idle"
        /\ is_scanned = "unset"
        /\ result.extraction_method = ret.method
        /\ result.tables = [k \in 1..Len(ret.confidence) |-> [by |-> ret.method, n |-> k]]
        /\ result.confidence_scores = ret.confidence

C1_Witness ==
    /\ pc = "done"
    /\ RetCleared
    /\ ret.method = "pdfplumber"
    /\ methods_to_try[1] = "camelot"
    /\ Len(result.tables) = 2

(***************************************************************************)
(* C2.  The primary strategies are invoked one at a time in the order      *)
(* [selected strategy] followed by the remaining strategies in the default *)
(* order: the ordering has no duplicate and holds every strategy, the      *)
(* primary calls made so far are a prefix of it (so none is invoked        *)
(* twice), and a strategy is started only when every strategy started      *)
(* before it has returned or raised.                                       *)
(***************************************************************************)
C2_SequentialOrdering ==
    LET P == PrimaryCalls
        M == methods_to_try
    IN  /\ M # <<>> =>
              /\ Len(M) = 3
              /\ {M[k] : k \in 1..Len(M)} = PrimaryNames
              /\ \A j, k \in 1..Len(M) : j # k => M[j] # M[k]
              /\ \A j, k \in 2..Len(M) : j < k => DefaultPos(M[j]) < DefaultPos(M[k])
        /\ Len(P) <= Len(M)
        /\ \A k \in 1..Len(P) : P[k] = M[k]
        /\ pc = "primary" =>
              /\ Last(calls) = Last(P)
              /\ Len(P) > 1 => ret.method = P[Len(P) - 1]
        /\ (pc # "primary" /\ P # <<>>) => ret.method = Last(P)

C2_Witness ==
    /\ pc = "done"
    /\ methods_to_try = <<"tabula", "pdfplumber", "camelot">>
    /\ PrimaryCalls = methods_to_try
    /\ "pdfplumber" \in raised

(***************************************************************************)
(* C3.  A primary strategy's grids are the result exactly when it returned *)
(* at least one grid and the mean of the per-grid confidences is at least  *)
(* 0.6: a result named after a primary strategy has tables, one confidence *)
(* per table, a mean of at least 0.6, and is what that strategy returned;  *)
(* a strategy that returned nothing or a lower mean is not the winner; one *)
(* that cleared the threshold is.                                          *)
(***************************************************************************)
C3_WinnerIffThreshold ==
    /\ result.extraction_method \in PrimaryNames =>
          /\ result.tables # <<>>
          /\ Len(result.confidence_scores) = Len(result.tables)
          /\ Sum(result.confidence_scores) >= 600 * Len(result.confidence_scores)
          /\ ret.method = result.extraction_method
          /\ ret.confidence = result.confidence_scores
    /\ RetBelow => result.extraction_method # ret.method
    /\ RetCleared => result.extraction_method = ret.method

C3_Witness ==
    /\ pc = "done"
    /\ result.extraction_method = "tabula"
    /\ result.confidence_scores = <<200, 1000>>
    /\ produced = {"camelot", "tabula"}

(***************************************************************************)
(* C4.  Once the timeout note has been recorded, no extraction work is     *)
(* invoked any more: no primary strategy, no fallback and no OCR call is   *)
(* started in any later step of the request.                               *)
(***************************************************************************)
ExtractionWork == PrimaryNames \cup FallbackNames \cup {OcrCall}

C4_TimeoutHaltsCascade ==
    [][("Processing timeout after 30s" \in notes /\ calls' # calls)
          => Last(calls') \notin ExtractionWork]_vars

(***************************************************************************)
(* C5.  A request whose deadline was found expired at a checkpoint returns *)
(* either the grids of a primary strategy that cleared the threshold or a  *)
(* result whose errors hold the timeout warning.                           *)
(***************************************************************************)
C5_DeadlineResult ==
    (pc = "done" /\ "Processing timeout after 30s" \in notes) =>
        \/ result.extraction_method \in PrimaryNames
        \/ \E k \in 1..Len(result.errors) : result.errors[k] = "Processing timeout after 30s"

(***************************************************************************)
(* C6.  Every note recorded at any point of a request is in the errors of  *)
(* the result that is returned.                                            *)
(***************************************************************************)
C6_ErrorsAccumulate ==
    pc = "done" => \A note \in notes : \E k \in 1..Len(result.errors) : result.errors[k] = note

(***************************************************************************)
(* C7.  A primary strategy that raises does not end the request: while the *)
(* request is in the loop its errors hold exactly one string naming that   *)
(* strategy, the outer handler is not entered, and, once the loop has      *)
(* moved on, the next strategy of the ordering has been invoked.  The      *)
(* statement as claimed leaves out the checkpoint; the amended statement   *)
(* excepts the case that the checkpoint before the next strategy found the *)
(* time budget exceeded.                                                   *)
(***************************************************************************)
NamedErrors(m) ==
    {k \in 1..Len(result.errors) : \E e \in ExcMsgs : result.errors[k] = m \o ": " \o e}

RaiseIsNotFatal ==
    \A m \in raised \cap PrimaryNames :
        /\ pc \in {"loop", "primary", "after_loop"} => Cardinality(NamedErrors(m)) = 1
        /\ \A e \in ExcMsgs : ("Extraction failed: " \o e) \notin notes

\* the strategy at position k raised and the loop is past that round
MovedOnAfterRaise(k) ==
    /\ k < Len(methods_to_try)
    /\ methods_to_try[k] \in raised
    /\ ~(pc = "loop" /\ idx = k + 1)

NextInvoked(k) == \E j \in 1..Len(calls) : calls[j] = methods_to_try[k + 1]

C7_NextAlwaysInvoked ==
    /\ RaiseIsNotFatal
    /\ \A k \in 1..Len(methods_to_try) : MovedOnAfterRaise(k) => NextInvoked(k)

C7_NextInvokedUnlessTimeout ==
    /\ RaiseIsNotFatal
    /\ \A k \in 1..Len(methods_to_try) :
          MovedOnAfterRaise(k) =>
              \/ NextInvoked(k)
              \/ "Processing timeout after 30s" \in notes

C7_Witness ==
    /\ methods_to_try = <<"tabula", "pdfplumber", "camelot">>
    /\ "pdfplumber" \in raised
    /\ pc = "primary"
    /\ Last(calls) = "camelot"
    /\ result.errors = <<"pdfplumber: corrupt file">>

(***************************************************************************)
(* C8.  A free-tier request never reaches the OCR service, and the OCR     *)
(* service called with the free tier raises at once: no page is converted  *)
(* and no text is extracted.                                               *)
(***************************************************************************)
C8_FreeTierNeverOcr ==
    /\ (user_tier = "free" /\ pc # "direct_ocr") =>
          /\ \A k \in 1..Len(calls) : calls[k] # OcrCall
          /\ pc # "ocr"
          /\ ocr.pc = "idle"
    /\ (ocr.tier = "free" /\ ocr.pc # "called") =>
          /\ ocr.pc = "raised"
          /\ ocr.err = "OCR processing is only available for paid tier users"
          /\ ocr.images = 0
          /\ ocr.rows = <<>>
          /\ ocr.tables = <<>>

C8_Witness ==
    /\ pc = "done"
    /\ user_tier = "free"
    /\ is_scanned = "True"
    /\ calls = <<"validate_pdf_file", "select_optimal_method", "pdfplumber", "camelot",
                 "tabula", "pdfplumber_enhanced", "text_parsing", "is_scanned_pdf">>

(***************************************************************************)
(* C9.  A free-tier request that ends with is_scanned true returns no      *)
(* tables and the upsell note, which is not the no-tables note.            *)
(***************************************************************************)
C9_FreeScannedUpsell ==
    (pc = "done" /\ user_tier = "free" /\ is_scanned = "True") =>
        /\ result.tables = <<>>
        /\ \E k \in 1..Len(result.errors) :
              /\ result.errors[k] = "This appears to be a scanned PDF. OCR processing is available for paid users to extract tables from scanned documents."
              /\ result.errors[k] # "No tables found with any extraction method (including fallbacks)"

C9_Witness ==
    /\ pc = "done"
    /\ user_tier = "free"
    /\ is_scanned = "True"
    /\ produced = {}
    /\ Len(PrimaryCalls) = 3

(***************************************************************************)
(* C10.  When the no-tables note is recorded.  As claimed: only when no    *)
(* strategy, fallback or OCR produced any grid and the document is not     *)
(* scanned.  As amended: only when the request ends without tables, no     *)
(* primary result having been adopted and no fallback or OCR having        *)
(* produced a grid; the document may be scanned, and a primary strategy    *)
(* may have produced grids below the threshold.                            *)
(***************************************************************************)
HasNoTablesNote ==
    \E k \in 1..Len(result.errors) :
        result.errors[k] = "No tables found with any extraction method (including fallbacks)"

C10_OnlyWhenNothingAndNotScanned ==
    HasNoTablesNote => (produced = {} /\ is_scanned = "False")

C10_OnlyWhenNoTables ==
    HasNoTablesNote =>
        /\ pc = "done"
        /\ result.tables = <<>>
        /\ result.extraction_method = ""
        /\ ~RetCleared
        /\ produced \cap (FallbackNames \cup {"ocr"}) = {}
        /\ is_scanned \in {"True", "False"}

C10_Witness ==
    /\ HasNoTablesNote
    /\ is_scanned = "True"
    /\ user_tier = "free"
    /\ "camelot" \in produced

(***************************************************************************)
(* C11.  A paid caller's request that went to the OCR service and got back *)
(* at least one grid with a non-empty dataframe returns exactly those      *)
(* grids, in the order the service listed them, each at the fixed          *)
(* confidence 0.7 (no scorer value appears), under a method name that      *)
(* begins with OCR_.                                                       *)
(***************************************************************************)
NonEmptyOcrTables == SelectSeq(ocr.tables, LAMBDA t : t.df_rows > 0)

C11_OcrGridsReturned ==
    (pc = "done" /\ user_tier # "free" /\ is_scanned = "True"
        /\ ocr.pc = "returned" /\ NonEmptyOcrTables # <<>>) =>
        /\ produced \cap (FallbackNames \cup {result.extraction_method}) = {}
        /\ Len(result.tables) = Len(NonEmptyOcrTables)
        /\ \A k \in 1..Len(result.tables) :
              result.tables[k] = [by |-> "ocr", n |-> NonEmptyOcrTables[k].page]
        /\ Len(result.confidence_scores) = Len(result.tables)
        /\ \A k \in 1..Len(result.confidence_scores) : result.confidence_scores[k] = 700
        /\ result.total_tables = Len(result.tables)
        /\ result.extraction_method = "OCR_OCR"

C11_Witness ==
    /\ pc = "done"
    /\ user_tier = "business"
    /\ produced = {"ocr"}
    /\ ocr.rows = <<2, 2>>
    /\ result.tables = <<[by |-> "ocr", n |-> 1], [by |-> "ocr", n |-> 2]>>

(***************************************************************************)
(* C12.  The OCR service is called by a request only as the last step of   *)
(* the cascade: no primary result was adopted, the enhanced pdfplumber,    *)
(* the text parsing and is_scanned_pdf were called just before it, in that *)
(* order, neither fallback produced a grid, is_scanned_pdf answered true,  *)
(* and nothing is called after it.                                         *)
(***************************************************************************)
OcrCalled == \E k \in 1..Len(calls) : calls[k] = OcrCall

C12_OcrOnlyAtEnd ==
    /\ OcrCalled =>
          /\ is_scanned = "True"
          /\ ~RetCleared
          /\ result.extraction_method \notin PrimaryNames
          /\ produced \cap FallbackNames = {}
          /\ Len(calls) >= 4
          /\ SubSeq(calls, Len(calls) - 3, Len(calls)) =
                <<"pdfplumber_enhanced", "text_parsing", "is_scanned_pdf", OcrCall>>
    /\ (pc # "direct_ocr" /\ ocr.pc # "idle") => OcrCalled

C12_Witness ==
    /\ pc = "ocr"
    /\ ocr.pc = "reading"
    /\ "camelot" \in produced
    /\ "pdfplumber" \in raised

(***************************************************************************)
(* C13.  The fallbacks.  A fallback is called only when no primary result  *)
(* was adopted; text parsing is called only right after the enhanced       *)
(* pdfplumber, which returned no grid; a fallback that returned grids is   *)
(* the last collaborator called and the request ends with its grids and    *)
(* its name; a result named after a fallback holds that fallback's grids.  *)
(***************************************************************************)
CallPos(c) == {k \in 1..Len(calls) : calls[k] = c}

C13_FallbackOrder ==
    /\ (CallPos("pdfplumber_enhanced") # {} \/ CallPos("text_parsing") # {}) =>
          /\ ~RetCleared
          /\ result.extraction_method \notin PrimaryNames
    /\ \A k \in CallPos("text_parsing") :
          /\ k > 1
          /\ calls[k - 1] = "pdfplumber_enhanced"
          /\ "pdfplumber_enhanced" \notin produced
    /\ Cardinality(CallPos("pdfplumber_enhanced")) <= 1
    /\ Cardinality(CallPos("text_parsing")) <= 1
    /\ \A f \in FallbackNames :
          /\ f \in produced =>
                /\ pc = "done"
                /\ Last(calls) = f
                /\ result.extraction_method = f
          /\ result.extraction_method = f =>
                /\ f \in produced
                /\ result.tables # <<>>
                /\ Len(result.confidence_scores) = Len(result.tables)
                /\ \A k \in 1..Len(result.tables) : result.tables[k] = [by |-> f, n |-> k]

C13_Witness ==
    /\ pc = "done"
    /\ result.extraction_method = "text_parsing"
    /\ Len(result.tables) = 2
    /\ "tabula" \in produced

(***************************************************************************)
(* C14.  extract_tables does not raise for a strategy failure, a timeout,  *)
(* an OCR call refused or failed, or a total failure to find tables: no    *)
(* exception leaves the request, and a request that has stopped has        *)
(* returned its result, whose tables and confidences agree in number.      *)
(***************************************************************************)
Stopped == ~ENABLED Next

C14_NeverRaises ==
    /\ pc # "propagated"
    /\ (pc # "direct_ocr" /\ Stopped) =>
          /\ pc = "done"
          /\ Len(result.confidence_scores) = Len(result.tables)
          /\ result.total_tables = Len(result.tables)

C14_Witness ==
    /\ pc = "done"
    /\ Stopped
    /\ raised = {"pdfplumber", "ocr"}
    /\ "Processing timeout after 30s" \in notes
    /\ result.tables = <<>>

(***************************************************************************)
(* C15.  A path that does not exist.  As claimed: the exception raised for *)
(* it leaves extract_tables.  As amended: the validator's exception is     *)
(* caught by the outer handler, and the request returns a result without   *)
(* tables whose errors hold "Extraction failed: PDF validation failed:"    *)
(* followed by the fault; nothing else is called.                          *)
(***************************************************************************)
PathMissing == "Extraction failed: PDF validation failed: No such file or directory" \in notes

C15_FaultPropagates ==
    "validate_pdf_file" \in raised => pc = "propagated"

C15_FaultReturnedAsResult ==
    /\ "validate_pdf_file" \in raised =>
          /\ pc = "done"
          /\ calls = <<"validate_pdf_file">>
          /\ result.tables = <<>>
          /\ Len(result.errors) = 1
          /\ \E e \in {"No such file or directory", "File too large"} :
                result.errors[1] = "Extraction failed: PDF validation failed: " \o e
    /\ PathMissing => "validate_pdf_file" \in raised

C15_Witness ==
    /\ pc = "done"
    /\ PathMissing
    /\ result.errors = <<"Extraction failed: PDF validation failed: No such file or directory">>

(***************************************************************************)
(* C16.  The process-isolated extractor, given a file that no extraction   *)
(* method can open, returns a dict with success False and an error entry.  *)
(***************************************************************************)
C16_UnopenableReportsFailure ==
    (app.pc = "returned" /\ app.file = "unopenable") =>
        /\ app.out.success = FALSE
        /\ "error" \in app.out.keys

(***************************************************************************)
(* C17.  The hard timeout of the process-isolated extractor is effective:  *)
(* once the future has timed out, extract_tables returns the timeout       *)
(* failure to its caller, whatever the worker does.                        *)
(***************************************************************************)
C17_TimeoutReturns ==
    (app.pc = "timed_out") ~>
        (app.pc = "returned" /\ app.out.success = FALSE
            /\ app.out.error = "Processing timeout" /\ app.out.tables = <<>>)

(***************************************************************************)
(* C19.  Both scorers return a value between 0 and 1 for every grid, and   *)
(* exactly 0 for the grid without rows and for the grid of one empty row.  *)
(***************************************************************************)
InUnit(q) == q.den > 0 /\ 0 <= q.num /\ q.num <= q.den

IsZero(q) == q.den > 0 /\ q.num = 0

C19_ScoresInUnitRange ==
    /\ sc.pc \in {"core", "scored"} =>
          /\ InUnit(sc.core[1])
          /\ InUnit(sc.core[2])
          /\ sc.grid \in {<<>>, << <<>> >>} => IsZero(sc.core[1])
    /\ sc.pc = "scored" =>
          /\ InUnit(sc.app[1])
          /\ InUnit(sc.app[2])
          /\ sc.grid \in {<<>>, << <<>> >>} => IsZero(sc.app[1])

\* five full rows of numbers, four of them distinct: the terms of the
\* DataFrame scorer sum to 1.004
C19_Witness ==
    /\ sc.pc = "scored"
    /\ sc.grid = <<<<IntCell("1"), IntCell("2"), FloatCell("2.5")>>, <<IntCell("2"), IntCell("0"), IntCell("1")>>,
                   <<IntCell("3"), IntCell("3"), IntCell("3")>>, <<IntCell("0"), IntCell("1"), IntCell("2")>>,
                   <<IntCell("3"), IntCell("3"), IntCell("3")>>>>
    /\ sc.core[1] = [num |-> 1000, den |-> 1000]

C19_WitnessEmpty ==
    /\ sc.pc = "scored"
    /\ sc.grid = << <<>> >>

(***************************************************************************)
(* C20.  A full 5x3 grid of mostly numbers scores strictly above the same  *)
(* grid with 80% of its cells blanked, for both scorers and for both kinds *)
(* of blank (missing value, empty string).                                 *)
(***************************************************************************)
Less(p, q) == p.num * q.den < q.num * p.den

IsPair == sc.grid \in FullGrids /\ sc.blanked # sc.grid

C20_FullBeatsBlanked ==
    /\ (sc.pc \in {"core", "scored"} /\ IsPair) => Less(sc.core[2], sc.core[1])
    /\ (sc.pc = "scored" /\ IsPair) => Less(sc.app[2], sc.app[1])

(***************************************************************************)
(* C21.  The list-of-rows scorer separates good from poor grids: a fully   *)
(* populated grid of consistent width with numeric data columns scores     *)
(* above 0.7, and a 3x3 grid whose only non-empty cell is one word scores  *)
(* below 0.3.                                                              *)
(***************************************************************************)
C21_GoodAbovePoorBelow ==
    sc.pc = "scored" =>
        /\ sc.grid \in GoodGrids => Less([num |-> 7, den |-> 10], sc.app[1])
        /\ sc.grid \in PoorGrids => Less(sc.app[1], [num |-> 3, den |-> 10])

(***************************************************************************)
(* C22.  The method selector never fails the extraction: once it has run,  *)
(* the ordering starts with one of the three strategy names, the request   *)
(* goes on to the loop without an exception or a note of the selector, and *)
(* the name is the default pdfplumber whenever the selector hit an         *)
(* internal error or the document has no pages.                            *)
(***************************************************************************)
SelectorRan == analysis.open # ""

C22_SelectorNeverFails ==
    SelectorRan =>
        /\ methods_to_try # <<>>
        /\ methods_to_try[1] \in {"pdfplumber", "camelot", "tabula"}
        /\ pc # "propagated"
        /\ "select_optimal_method" \notin raised
        /\ (analysis.open = "raises" \/ analysis.text = "raises" \/ analysis.pages = 0)
              => methods_to_try[1] = "pdfplumber"

\* the selector could not open the document, and the first primary strategy,
\* the default one, then returned the winning grids
C22_Witness ==
    /\ analysis.open = "raises"
    /\ pc = "done"
    /\ calls = <<"validate_pdf_file", "select_optimal_method", "pdfplumber">>
    /\ result.extraction_method = "pdfplumber"

(***************************************************************************)
(* C23.  The rate limiter enforces its limit per (IP, endpoint) under      *)
(* every interleaving of the request threads and the cleanup thread: the   *)
(* admitted requests of one IP on one endpoint whose timestamps lie in one *)
(* window never exceed the limit, and a request is refused only when its   *)
(* own IP is at the limit on that endpoint or is blocked, an IP being      *)
(* blocked only by a refusal of its own request; so a request of another   *)
(* IP is still admitted.                                                   *)
(***************************************************************************)
InWindow(stamps, from) ==
    Cardinality({j \in 1..Len(stamps) : from <= stamps[j] /\ stamps[j] <= from + Window})

WindowBound ==
    \A k \in DOMAIN rl.log :
        \A i \in 1..Len(rl.log[k]) :
            InWindow(rl.log[k], rl.log[k][i]) <= rate_limits(k[2]).requests

Refused(t) == rl.th[t].pc = "sanitized" /\ rl'.th[t].pc = "idle"

RefusedOnlyForOwnRequests ==
    /\ \A t \in DOMAIN rl.th :
          Refused(t) =>
              \/ InWindow(rl.log[<<rl.th[t].ip, rl.th[t].endpoint>>], RlNow - Window)
                    >= rate_limits(rl.th[t].endpoint).requests
              \/ rl.th[t].ip \in DOMAIN rl.blocked_ips
    /\ \A ip \in DOMAIN rl'.blocked_ips \ DOMAIN rl.blocked_ips :
          \E t \in DOMAIN rl.th : Refused(t) /\ rl.th[t].ip = ip

C23_LimitPerIpAndEndpoint == []WindowBound /\ [][RefusedOnlyForOwnRequests]_vars

\* one address is at its limit on the upload endpoint and its next request
\* was refused, while the other address was admitted in that window, the
\* cleanup thread holding no lock
C23_Witness ==
    /\ rl.pc = "serving"
    /\ rl.th[1].out = "rejected"
    /\ rl.th[1].ip = IpA
    /\ rl.th[1].endpoint = "upload"
    /\ InWindow(rl.log[<<IpA, "upload">>], RlNow - Window) = Len(rl.log[<<IpA, "upload">>])
    /\ Len(rl.log[<<IpA, "upload">>]) >= 1
    /\ rl.th[2].out = "admitted"
    /\ rl.th[2].ip = IpB
    /\ Last(rl.log[<<IpB, "upload">>]) = RlNow
    /\ rl.cleaner.pc = "sleeping"
    /\ <<IpA, "upload">> \in DOMAIN rl.request_history

(***************************************************************************)
(* C24.  The file handler never hands out a cleaned-up or expired file:    *)
(* once cleanup_file has returned True for an id, the file is neither on   *)
(* disk nor in the registry, and every get_file_path of that id that       *)
(* begins afterwards returns None; and get_file_path returns None for a    *)
(* registered file that was older than the expiry when the call began.     *)
(***************************************************************************)
C24_NeverHandsOutCleanedOrExpired ==
    /\ \A id \in fh.cleaned : id \notin DOMAIN fh.disk /\ id \notin DOMAIN fh.registry
    /\ \A w \in DOMAIN fh.th :
          (fh.th[w].op = "get_file_path" /\ fh.th[w].pc = "idle"
             /\ (fh.th[w].after \/ fh.th[w].old))
          => fh.th[w].ret = "None"

\* one thread asked for a file after its cleanup had returned True, the
\* other for a registered file older than the expiry: both got None
C24_Witness ==
    /\ fh.pc = "serving"
    /\ "id1" \in fh.cleaned
    /\ fh.th[2].op = "get_file_path" /\ fh.th[2].id = "id1" /\ fh.th[2].after
    /\ fh.th[2].pc = "idle" /\ fh.th[2].ret = "None"
    /\ fh.th[1].op = "get_file_path" /\ fh.th[1].id = "id2" /\ fh.th[1].old
    /\ fh.th[1].pc = "idle" /\ fh.th[1].ret = "None"

(***************************************************************************)
(* C25.  _limited_extract returns the best attempt: the methods are        *)
(* invoked in their fixed order, a method that raises is skipped, the loop *)
(* stops right after the first method whose confidence is at least 0.7,    *)
(* and the result returned is the one of the earliest method among those   *)
(* that returned the highest confidence.  As stated, this fails when every *)
(* method that returned gave confidence 0; the amended statement returns   *)
(* the initial best_result (no tables, confidence 0, method None) then.    *)
(***************************************************************************)
WorkerFinished == app.w = "finished"

MaxConfidence(rets) ==
    CHOOSE c \in {rets[i].confidence : i \in 1..Len(rets)} :
        \A i \in 1..Len(rets) : rets[i].confidence <= c

EarliestBest(rets) ==
    rets[CHOOSE i \in 1..Len(rets) :
            /\ rets[i].confidence = MaxConfidence(rets)
            /\ \A j \in 1..(i - 1) : rets[j].confidence < MaxConfidence(rets)]

FixedOrderUntilHigh ==
    /\ app.calls = SubSeq(<<"pdfplumber", "camelot", "tabula">>, 1, Len(app.calls))
    /\ \A i \in 1..(Len(app.rets) - 1) : app.rets[i].confidence < 700
    /\ IF app.rets # <<>> /\ Last(app.rets).confidence >= 700
       THEN Last(app.calls) = Last(app.rets).method
       ELSE Len(app.calls) = 3

C25_ReturnsEarliestBest ==
    WorkerFinished =>
        /\ FixedOrderUntilHigh
        /\ app.rets # <<>> => app.best = EarliestBest(app.rets)

C25_ReturnsEarliestPositiveBest ==
    WorkerFinished =>
        /\ FixedOrderUntilHigh
        /\ (app.rets # <<>> /\ MaxConfidence(app.rets) > 0) => app.best = EarliestBest(app.rets)
        /\ (app.rets = <<>> \/ MaxConfidence(app.rets) = 0)
              => app.best = [tables |-> <<>>, confidence |-> 0, method |-> "None"]

\* the first method raised, the two others returned the same confidence
\* under the threshold: the result of the earlier one is returned
C25_Witness ==
    /\ WorkerFinished
    /\ app.calls = <<"pdfplumber", "camelot", "tabula">>
    /\ Len(app.rets) = 2
    /\ app.rets[1].confidence = 600
    /\ app.rets[2].confidence = 600
    /\ app.best.method = "camelot"

Widest(rows) ==
    CHOOSE n \in {Len(rows[i]) : i \in 1..Len(rows)} : \A i \in 1..Len(rows) : Len(rows[i]) <= n

RectangleOf(grid, rows) ==
    /\ Len(grid) = Len(rows)
    /\ \A i \in 1..Len(grid) :
         /\ Len(grid[i]) = Widest(rows)
         /\ \A j \in 1..Len(grid[i]) :
              grid[i][j] = IF j <= Len(rows[i]) THEN rows[i][j] ELSE ""

C27_RectangleOfWidestRow ==
    (nz.pc = "done" /\ nz.table.made) =>
        RectangleOf(<<nz.table.headers>> \o nz.table.rows, nz.raw)

(***************************************************************************)
(* C28.  A paid caller's request that succeeded through the OCR strategy   *)
(* of OCRService returns a result whose extraction_method is exactly       *)
(* 'OCR_tesseract'.                                                        *)
(***************************************************************************)
C28_OcrTesseract ==
    (pc = "done" /\ user_tier # "free" /\ "ocr" \in produced /\ result.tables # <<>>) =>
        result.extraction_method = "OCR_tesseract"

(***************************************************************************)
(* C29.  The result extract_tables returns is consistent on every path: it *)
(* holds as many confidences as tables, total_tables is their number, and  *)
(* extraction_method is non-empty exactly when there are tables, in which  *)
(* case it is pdfplumber, camelot, tabula, pdfplumber_enhanced,            *)
(* text_parsing or a name made of OCR_ and the name the OCR service gave.  *)
(***************************************************************************)
MethodVocabulary ==
    {"pdfplumber", "camelot", "tabula", "pdfplumber_enhanced", "text_parsing"}
        \cup {"OCR_" \o name : name \in {"OCR", "tesseract"}}

C29_ResultConsistent ==
    pc = "done" =>
        /\ Len(result.tables) = Len(result.confidence_scores)
        /\ Len(result.tables) = result.total_tables
        /\ (result.extraction_method # "") <=> (result.tables # <<>>)
        /\ result.tables # <<>> => result.extraction_method \in MethodVocabulary

\* a fallback won after a primary method raised and the others fell short
C29_Witness ==
    /\ pc = "done"
    /\ "pdfplumber" \in raised
    /\ result.extraction_method = "pdfplumber_enhanced"
    /\ Len(result.tables) = 2
    /\ result.total_tables = 2

(***************************************************************************)
(* C30.  Validation gates the whole cascade: once validate_pdf_file has    *)
(* raised for the file, or had it returned false, extract_tables has       *)
(* called no method selection, no primary strategy, no fallback, no        *)
(* is_scanned check and no OCR, and it returns a result with no tables, an *)
(* empty extraction_method and a non-empty errors list.                    *)
(***************************************************************************)
RefusedResult(r) ==
    /\ r.tables = <<>>
    /\ r.confidence_scores = <<>>
    /\ r.extraction_method = ""
    /\ r.errors # <<>>

C30_ValidationGatesCascade ==
    /\ "validate_pdf_file" \in raised =>
          /\ pc = "done"
          /\ calls = <<"validate_pdf_file">>
          /\ produced = {}
          /\ is_scanned = "unset"
          /\ ocr.pc = "idle"
          /\ RefusedResult(result)
    /\ LET a == ValidationFailed(TableExtractionResult)
       IN  /\ a.pc = "done"
           /\ a.called = <<"validate_pdf_file">>
           /\ RefusedResult(a.result)

\* the validator raised on an oversized file and the request is over
C30_Witness ==
    /\ pc = "done"
    /\ raised = {"validate_pdf_file"}
    /\ result.errors = <<"Extraction failed: PDF validation failed: File too large">>
    /\ ~ENABLED Next

(***************************************************************************)
(* C18.  Two requests served concurrently do not affect each other: at     *)
(* every point a request is where it would be had it run alone, it ends    *)
(* with the tables, confidence scores, method and errors of its run alone, *)
(* and its result never holds a grid or a note that does not come from its *)
(* own document.                                                           *)
(***************************************************************************)
RECURSIVE RunAlone(_)
RunAlone(q) == IF q.pc \in {"ocr_images", "ocr_text"} THEN RunAlone(Resume(q)) ELSE q

Alone(doc, tier) == RunAlone(Begin(NewRequest(doc, tier), 0, 0).req).result

SameOutcome(r1, r2) ==
    /\ r1.tables = r2.tables
    /\ r1.confidence_scores = r2.confidence_scores
    /\ r1.extraction_method = r2.extraction_method
    /\ r1.errors = r2.errors

OwnGrids(doc) ==
    UNION {Range(Grids(m, Len(doc.prim[m].confidence))) : m \in PrimaryNames}
    \cup Range(Grids("pdfplumber_enhanced", Len(doc.enhanced)))
    \cup Range(Grids("text_parsing", Len(doc.text)))
    \cup {[by |-> "ocr", n |-> k] : k \in 1..Len(doc.ocr_rows)}

C18_RequestsIndependent ==
    \A i \in DOMAIN conc.reqs :
        LET q == conc.reqs[i]
        IN  /\ q.pc = "done" => SameOutcome(q.result, Alone(q.doc, q.tier))
            /\ q.pc # "pending" => SameOutcome(RunAlone(q).result, Alone(q.doc, q.tier))
            /\ q.pc \in {"pending", "ocr_images", "ocr_text", "done"}
            /\ Range(q.result.tables) \subseteq OwnGrids(q.doc)
            /\ q.pc = "done" => Range(q.result.errors) = Range(Alone(q.doc, q.tier).errors)

\* the second request ran from start to end, more than 30 s after the first
\* had started, while the first was waiting for its OCR job
C18_Witness ==
    /\ conc.reqs # <<>>
    /\ conc.reqs[1].doc.name = "slow-scan.pdf"
    /\ conc.reqs[1].tier = "business"
    /\ conc.reqs[1].pc = "ocr_text"
    /\ conc.reqs[2].doc.name = "tables.pdf"
    /\ conc.reqs[2].pc = "done"
    /\ conc.reqs[2].start > 30
    /\ conc.reqs[2].result.extraction_method = "pdfplumber"

====
